---- MODULE Spec2Model ----
(***************************************************************************)
(* Model of the 6G news summarizer: the URL reconciler                     *)
(* (_preserve_original_urls), the LLM response sanitizer                   *)
(* (extract_json_from_text, clean_json_string), the non-AI fallback        *)
(* (create_summary_without_ai) and the summarizer (summarize_with_gemini). *)
(* Text is a sequence of one-character strings.                            *)
(***************************************************************************)
EXTENDS Integers, Sequences, FiniteSets, TLC

VARIABLES
    \* _preserve_original_urls
    original_items,   \* the source items handed to the reconciler
    returned,         \* the summaries as the LLM returned them (never written)
    summaries,        \* the summaries, updated in place
    original_map,     \* the dict title -> url, in insertion order
    upos,             \* index of the next summary of the second loop
    upc,              \* "map", "restore", "done", or "idle"
    \* the sanitizer applied to one LLM response
    doc,              \* the JSON document the LLM meant
    body,             \* the document as the LLM wrote it (escaping artifacts)
    text,             \* the response text: the body in fences and commentary
    json_text,        \* extract_json_from_text(text)
    clean_text,       \* clean_json_string(json_text)
    parsed,           \* json.loads(clean_text)
    jpc,              \* "extract", "clean", "loads", "done", or "idle"
    \* create_summary_without_ai and summarize_with_gemini
    items,            \* the source items handed to the function
    api_key,          \* GEMINI_API_KEY: "unset", "" or "key"
    attempts,         \* HTTP requests sent so far
    neterr,           \* a request ended in a transport error
    status,           \* status code of the last response (0: none yet)
    data,             \* response.json()
    stext,            \* the text of the first part of the first candidate
    result,           \* the value returned (NoResult before the return)
    exc,              \* the exception that left the function ("none" if none)
    spc,              \* position in the function, or "idle"
    \* select_top_items_for_ran_engineers and extract_hot_keywords, which
    \* share the request variables above
    all_items,        \* the collected items handed to the selector
    top_n,            \* the number of items asked for
    selected_items,   \* the list the selector returned
    keyword,          \* the keyword extract_hot_keywords returned
    \* main
    script,           \* the entry-point script that runs
    env,              \* the credentials set in the environment
    mpc,              \* position in main, or "idle"
    calls,            \* the functions main has called, in order
    failed,           \* the fetch adapters whose request or parsing failed
    hot_keyword,      \* hot_keyword of main
    journals,         \* journals of main
    papers_arxiv,     \* papers_arxiv of main
    news,             \* news of main
    summary_data,     \* summary_data of main (news_data in the older scripts)
    message,          \* the chat message send_visual_telegram assembled
    sent,             \* the channels the bundle went out on
    main_exc          \* the exception that left main ("none" if none)

urlVars == <<original_items, returned, summaries, original_map, upos, upc>>

jsonVars == <<doc, body, text, json_text, clean_text, parsed, jpc>>

sumVars == <<items, api_key, attempts, neterr, status, data, stext, result, exc, spc>>

selVars == <<all_items, top_n, selected_items, keyword>>

mainVars == <<script, env, mpc, calls, failed, hot_keyword, journals, papers_arxiv, news,
              summary_data, message, sent, main_exc>>

vars == <<urlVars, jsonVars, sumVars, selVars, mainVars>>

----------------------------------------------------------------------------
(* Sequences of characters *)

\* n copies of the character c
Rep(c, n) == [k \in 1..n |-> c]

\* Python's `needle in hay` for strings; the empty needle is in every string
Contains(hay, needle) ==
    \E k \in 0..(Len(hay) - Len(needle)) :
        SubSeq(hay, k + 1, k + Len(needle)) = needle

Whitespace == {" ", "\n", "\t", "\r"}

\* str.lower() on the letters of the model's alphabet
LowerChar(c) == CASE c = "A" -> "a" [] c = "B" -> "b" [] OTHER -> c

Lower(s) == [k \in 1..Len(s) |-> LowerChar(s[k])]

\* str.lstrip() and str.rstrip()
RECURSIVE LStrip(_)
LStrip(s) == IF s # <<>> /\ Head(s) \in Whitespace THEN LStrip(Tail(s)) ELSE s

RECURSIVE RStrip(_)
RStrip(s) ==
    IF s # <<>> /\ s[Len(s)] \in Whitespace THEN RStrip(SubSeq(s, 1, Len(s) - 1)) ELSE s

\* str.strip(): drop leading and trailing whitespace
Strip(s) == RStrip(LStrip(s))

\* item['title'].lower().strip()
NormalizeTitle(t) == Strip(Lower(t))

\* summary.get('title', '')
GetTitle(summary) == IF "title" \in DOMAIN summary THEN summary.title ELSE <<>>

----------------------------------------------------------------------------
(* _preserve_original_urls *)

\* the length a summary title must exceed for the substring fallback
MinFuzzyLen == 20

\* bounds of the reconciler's inputs
MaxItems == 2
MaxSummaries == 2

\* the url of the article at position i of the source list, and the bare
\* domain the LLM returns in its place
ArticleUrl(i) == <<"site", i>>
BareDomain == <<"site", 0>>

\* the long title two other titles extend, one character over the threshold
Stem == Rep("b", MinFuzzyLen + 1)

\* raw titles of source items: blank, the stem in another spelling, and two
\* extensions of the stem neither of which contains the other
SourceTitles ==
    { <<" ">>,
      <<" ", "B">> \o Rep("b", MinFuzzyLen) \o <<" ">>,
      Stem \o <<"a">>,
      <<"a">> \o Stem }

\* titles the LLM returns: one exactly at the threshold, the stem, and its
\* two extensions
SummaryTitles ==
    { Rep("b", MinFuzzyLen), Stem, Stem \o <<"a">>, <<"a">> \o Stem }

\* the source lists of length n: the item at position i carries ArticleUrl(i)
ItemLists(n) ==
    { [i \in 1..n |-> [title |-> ts[i], url |-> ArticleUrl(i), type |-> "News"]] :
        ts \in [1..n -> SourceTitles] }

\* the LLM's summaries of length n: any title (or none), the bare domain as url
SummaryLists(n) ==
    { [i \in 1..n |->
          IF ts[i] = <<"-">> THEN [url |-> BareDomain, summary |-> i]
          ELSE [title |-> ts[i], url |-> BareDomain, summary |-> i]] :
        ts \in [1..n -> SummaryTitles \cup {<<"-">>}] }

\* a dict write that keeps the value of a key already present
DictPutKeepFirst(d, key, val) ==
    IF \E k \in 1..Len(d) : d[k].key = key THEN d
    ELSE Append(d, [key |-> key, val |-> val])

\* original_map[key] = val on a dict kept as a sequence of pairs: an existing
\* key keeps its position and takes the new value, a new key is appended
DictPut(d, key, val) ==
    IF \E k \in 1..Len(d) : d[k].key = key
    THEN [k \in 1..Len(d) |-> IF d[k].key = key THEN [key |-> key, val |-> val] ELSE d[k]]
    ELSE Append(d, [key |-> key, val |-> val])

DictHas(d, key) == \E k \in 1..Len(d) : d[k].key = key

DictGet(d, key) == d[CHOOSE k \in 1..Len(d) : d[k].key = key].val

\* the first loop run over the source items from the last to the first
RECURSIVE BuildMapBackwards(_, _)
BuildMapBackwards(its, n) ==
    IF n = 0 THEN <<>>
    ELSE LET k == Len(its) - n + 1
         IN  DictPut(BuildMapBackwards(its, n - 1),
                     NormalizeTitle(its[k].title), its[k].url)

\* the first loop: original_map after the first n source items
RECURSIVE BuildMap(_, _)
BuildMap(its, n) ==
    IF n = 0 THEN <<>>
    ELSE DictPut(BuildMap(its, n - 1), NormalizeTitle(its[n].title), its[n].url)

\* the fallback's condition with the threshold itself accepted
FuzzyMatchAtThreshold(summary_title, orig_title) ==
    /\ Contains(orig_title, summary_title) \/ Contains(summary_title, orig_title)
    /\ Len(summary_title) >= MinFuzzyLen

\* the fallback's condition without the containment test
FuzzyMatchAnyLong(summary_title, orig_title) ==
    Len(summary_title) > MinFuzzyLen

\* the condition of the substring fallback for one entry of the dict
FuzzyMatch(summary_title, orig_title) ==
    /\ Contains(orig_title, summary_title) \/ Contains(summary_title, orig_title)
    /\ Len(summary_title) > MinFuzzyLen

\* the positions of the dict the fallback would accept
FuzzyHits(d, summary_title) ==
    {k \in 1..Len(d) : FuzzyMatch(summary_title, d[k].key)}

First(S) == CHOOSE k \in S : \A m \in S : k <= m

\* the lookup with the substring fallback tried before the exact match
RestoreOneFuzzyFirst(d, summary) ==
    LET st == NormalizeTitle(GetTitle(summary))
        setUrl(u) == [f \in DOMAIN summary \cup {"url"} |->
                         IF f = "url" THEN u ELSE summary[f]]
    IN  IF FuzzyHits(d, st) # {} THEN setUrl(d[First(FuzzyHits(d, st))].val)
        ELSE IF DictHas(d, st) THEN setUrl(DictGet(d, st))
        ELSE summary

\* a lookup that copies the matched title along with the url
RestoreOneRetitled(d, summary) ==
    LET st == NormalizeTitle(GetTitle(summary))
        setBoth(entry) == [f \in DOMAIN summary \cup {"url", "title"} |->
                             IF f = "url" THEN entry.val
                             ELSE IF f = "title" THEN entry.key ELSE summary[f]]
    IN  IF DictHas(d, st) THEN setBoth([key |-> st, val |-> DictGet(d, st)])
        ELSE IF FuzzyHits(d, st) # {} THEN setBoth(d[First(FuzzyHits(d, st))])
        ELSE summary

\* a lookup that appends the url it found to the url of the summary
RestoreOneAppending(d, summary) ==
    LET st == NormalizeTitle(GetTitle(summary))
        addUrl(u) == [f \in DOMAIN summary \cup {"url"} |->
                         IF f = "url" THEN summary.url \o u ELSE summary[f]]
    IN  IF DictHas(d, st) THEN addUrl(DictGet(d, st))
        ELSE IF FuzzyHits(d, st) # {} THEN addUrl(d[First(FuzzyHits(d, st))].val)
        ELSE summary

\* one iteration of the second loop: the summary after the lookup
RestoreOne(d, summary) ==
    LET st == NormalizeTitle(GetTitle(summary))
        setUrl(u) == [f \in DOMAIN summary \cup {"url"} |->
                         IF f = "url" THEN u ELSE summary[f]]
    IN  IF DictHas(d, st) THEN setUrl(DictGet(d, st))
        ELSE IF FuzzyHits(d, st) # {} THEN setUrl(d[First(FuzzyHits(d, st))].val)
        ELSE summary


----------------------------------------------------------------------------
(* The LLM response sanitizer: extract_json_from_text, clean_json_string,   *)
(* json.loads                                                              *)

\* the backquote and the NUL character, which a TLA+ string cannot hold
BackTick == "BQ"
Quote == "\""
BackSlash == "\\"
Nul == "NUL"

Fence == <<BackTick, BackTick, BackTick>>

\* s starts with the sequence p at position i
StartsAt(s, i, p) == i + Len(p) - 1 <= Len(s) /\ SubSeq(s, i, i + Len(p) - 1) = p

\* the rest of s from position i on
From(s, i) == SubSeq(s, i, Len(s))

\* first position >= i of s that holds no whitespace (Len(s) + 1 if none)
RECURSIVE SkipWs(_, _)
SkipWs(s, i) == IF i <= Len(s) /\ s[i] \in Whitespace THEN SkipWs(s, i + 1) ELSE i

\* str.replace(pat, rep): occurrences of pat replaced from left to right
RECURSIVE ReplaceFrom(_, _, _, _)
ReplaceFrom(s, i, pat, rep) ==
    IF i > Len(s) THEN <<>>
    ELSE IF StartsAt(s, i, pat) THEN rep \o ReplaceFrom(s, i + Len(pat), pat, rep)
    ELSE <<s[i]>> \o ReplaceFrom(s, i + 1, pat, rep)

Replace(s, pat, rep) == ReplaceFrom(s, 1, pat, rep)

\* where a match of the pattern fence, (?:json|python)?, \s* that starts at
\* i ends (exclusive)
FenceMatchEnd(s, i) ==
    LET j == i + Len(Fence)
        k == IF StartsAt(s, j, <<"j", "s", "o", "n">>) THEN j + 4
             ELSE IF StartsAt(s, j, <<"p", "y", "t", "h", "o", "n">>) THEN j + 6
             ELSE j
    IN  SkipWs(s, k)

\* re.sub of that pattern by the empty string
RECURSIVE SubFences(_, _)
SubFences(s, i) ==
    IF i > Len(s) THEN <<>>
    ELSE IF StartsAt(s, i, Fence) THEN SubFences(s, FenceMatchEnd(s, i))
    ELSE <<s[i]>> \o SubFences(s, i + 1)

\* lines 39-40: the text without Markdown code-fence markers
StripFences(txt) == Replace(SubFences(txt, 1), Fence, <<>>)

Positions(s, c) == {k \in 1..Len(s) : s[k] = c}

Min(S) == CHOOSE k \in S : \A m \in S : k <= m
Max(S) == CHOOSE k \in S : \A m \in S : k >= m

\* re.search of open [\s\S]* close: from the first opener that has a closer
\* behind it to the last closer; <<>> stands for no match
GreedySpan(s, open, close) ==
    LET os == Positions(s, open)
        cs == Positions(s, close)
    IN  IF os # {} /\ cs # {} /\ Min(os) < Max(cs)
        THEN SubSeq(s, Min(os), Max(cs))
        ELSE <<>>

\* extract_json_from_text with the object searched before the array
ExtractJsonObjectFirst(txt) ==
    LET t == StripFences(txt)
        arr == GreedySpan(t, "[", "]")
        obj == GreedySpan(t, "{", "}")
    IN  IF obj # <<>> THEN Strip(obj)
        ELSE IF arr # <<>> THEN Strip(arr)
        ELSE Strip(t)

\* extract_json_from_text: the array is searched first, then the object
ExtractJson(txt) ==
    LET t == StripFences(txt)
        arr == GreedySpan(t, "[", "]")
        obj == GreedySpan(t, "{", "}")
    IN  IF arr # <<>> THEN Strip(arr)
        ELSE IF obj # <<>> THEN Strip(obj)
        ELSE Strip(t)

\* clean_json_string without the protection of doubled backslashes
CleanJsonDropAll(txt) == Replace(txt, <<BackSlash>>, <<>>)

\* clean_json_string: doubled backslashes to a marker, the other backslashes
\* deleted, the marker back to a doubled backslash
CleanJson(txt) ==
    Replace(Replace(Replace(txt, <<BackSlash, BackSlash>>, <<Nul>>),
                    <<BackSlash>>, <<>>),
            <<Nul>>, <<BackSlash, BackSlash>>)


----------------------------------------------------------------------------
(* json.loads on a text: a JSON value, or the error value on JSONDecodeError. *)
(* The texts of the model hold no \u escape, no fraction or exponent and no  *)
(* NaN or Infinity.                                                        *)

VStr(s) == [kind |-> "str", str |-> s, val |-> <<>>]
VNum(s) == [kind |-> "num", str |-> s, val |-> <<>>]
VLit(s) == [kind |-> "lit", str |-> s, val |-> <<>>]
VArr(v) == [kind |-> "arr", str |-> <<>>, val |-> v]
VObj(d) == [kind |-> "obj", str |-> <<>>, val |-> d]
VErr == [kind |-> "err", str |-> <<>>, val |-> <<>>]

Fail(i) == [ok |-> FALSE, val |-> VErr, pos |-> i]
Ok(v, i) == [ok |-> TRUE, val |-> v, pos |-> i]

Digits == {"0", "1", "2", "3", "4", "5", "6", "7", "8", "9"}

\* characters below 0x20, which a JSON string may not hold unescaped
ControlChars == {"\n", "\t", "\r", "\f", "BS", Nul}

\* the character an escape letter stands for (BS is the backspace)
Unescape(c) ==
    CASE c = "n" -> "\n" [] c = "t" -> "\t" [] c = "r" -> "\r"
      [] c = "f" -> "\f" [] c = "b" -> "BS" [] OTHER -> c

EscapeLetters == {Quote, BackSlash, "/", "b", "f", "n", "r", "t"}

\* py_scanstring: the body of a string from position j on
RECURSIVE StrBody(_, _, _)
StrBody(s, j, acc) ==
    IF j > Len(s) THEN Fail(j)
    ELSE IF s[j] = Quote THEN Ok(VStr(acc), j + 1)
    ELSE IF s[j] \in ControlChars THEN Fail(j)
    ELSE IF s[j] = BackSlash
         THEN IF j + 1 <= Len(s) /\ s[j + 1] \in EscapeLetters
              THEN StrBody(s, j + 2, Append(acc, Unescape(s[j + 1])))
              ELSE Fail(j)
    ELSE StrBody(s, j + 1, Append(acc, s[j]))

\* the end (exclusive) of the digits that start at i
RECURSIVE DigitsEnd(_, _)
DigitsEnd(s, i) == IF i <= Len(s) /\ s[i] \in Digits THEN DigitsEnd(s, i + 1) ELSE i

\* NUMBER_RE without fraction and exponent: -?(0|[1-9][0-9]*)
ParseNumber(s, i) ==
    LET d == IF s[i] = "-" THEN i + 1 ELSE i
        e == IF d <= Len(s) /\ s[d] = "0" THEN d + 1 ELSE DigitsEnd(s, d)
    IN  IF e = d THEN Fail(i) ELSE Ok(VNum(SubSeq(s, i, e - 1)), e)

Literals == {<<"n", "u", "l", "l">>, <<"t", "r", "u", "e">>, <<"f", "a", "l", "s", "e">>}

RECURSIVE ParseValue(_, _)
RECURSIVE ArrElems(_, _, _)
RECURSIVE ObjMembers(_, _, _)

\* JSONArray: i is the position behind the opening bracket
ParseArray(s, i) ==
    LET j == SkipWs(s, i)
    IN  IF j <= Len(s) /\ s[j] = "]" THEN Ok(VArr(<<>>), j + 1)
        ELSE ArrElems(s, j, <<>>)

ArrElems(s, i, acc) ==
    LET r == ParseValue(s, i)
        j == SkipWs(s, r.pos)
    IN  IF ~r.ok \/ j > Len(s) THEN Fail(i)
        ELSE IF s[j] = "]" THEN Ok(VArr(Append(acc, r.val)), j + 1)
        ELSE IF s[j] = "," THEN ArrElems(s, SkipWs(s, j + 1), Append(acc, r.val))
        ELSE Fail(j)

\* JSONObject: i is the position behind the opening brace
ParseObject(s, i) ==
    LET j == SkipWs(s, i)
    IN  IF j <= Len(s) /\ s[j] = "}" THEN Ok(VObj(<<>>), j + 1)
        ELSE IF j <= Len(s) /\ s[j] = Quote THEN ObjMembers(s, j, <<>>)
        ELSE Fail(j)

\* the members of an object from the opening quote of a key at position i;
\* a repeated key takes the later value
ObjMembers(s, i, acc) ==
    LET key == StrBody(s, i + 1, <<>>)
        c == SkipWs(s, key.pos)
        r == ParseValue(s, SkipWs(s, c + 1))
        j == SkipWs(s, r.pos)
        n == SkipWs(s, j + 1)
    IN  IF ~key.ok \/ c > Len(s) THEN Fail(i)
        ELSE IF s[c] # ":" THEN Fail(c)
        ELSE IF ~r.ok \/ j > Len(s) THEN Fail(c)
        ELSE IF s[j] = "}" THEN Ok(VObj(DictPut(acc, key.val.str, r.val)), j + 1)
        ELSE IF s[j] = "," /\ n <= Len(s) /\ s[n] = Quote
             THEN ObjMembers(s, n, DictPut(acc, key.val.str, r.val))
        ELSE Fail(j)

\* scan_once at position i
ParseValue(s, i) ==
    IF i > Len(s) THEN Fail(i)
    ELSE IF s[i] = Quote THEN StrBody(s, i + 1, <<>>)
    ELSE IF s[i] = "{" THEN ParseObject(s, i + 1)
    ELSE IF s[i] = "[" THEN ParseArray(s, i + 1)
    ELSE IF \E l \in Literals : StartsAt(s, i, l)
         THEN LET l == CHOOSE x \in Literals : StartsAt(s, i, x)
              IN  Ok(VLit(l), i + Len(l))
    ELSE IF s[i] \in Digits \cup {"-"} THEN ParseNumber(s, i)
    ELSE Fail(i)

\* json.loads(s): one value between optional whitespace, nothing behind it
Loads(s) ==
    LET r == ParseValue(s, SkipWs(s, 1))
    IN  IF r.ok /\ SkipWs(s, r.pos) = Len(s) + 1 THEN r.val ELSE VErr


----------------------------------------------------------------------------
(* The sanitizer applied to the responses of the LLM *)

Str(chars) == <<Quote>> \o chars \o <<Quote>>

\* JSON documents without backslash: arrays, objects, objects that hold
\* arrays, arrays that hold objects, and two scalars
PlainDocs ==
    { <<"[", "1", "]">>,
      <<"[", "]">>,
      <<"[">> \o Str(<<"a">>) \o <<",", " ", "1", "]">>,
      <<"[", "[", "1", "]", ",", "[", "1", "]", "]">>,
      <<"[", "{">> \o Str(<<"s">>) \o <<":">> \o Str(<<"a">>) \o <<"}", "]">>,
      <<"{", "}">>,
      <<"{">> \o Str(<<"s">>) \o <<":">> \o Str(<<"a">>) \o <<"}">>,
      <<"{">> \o Str(<<"s">>) \o <<":", " ", "[", "1", "]", "}">>,
      <<"{">> \o Str(<<"s">>) \o <<":", "[", "1", "]", ",">> \o Str(<<"g">>)
          \o <<":", "[", "1", "]", "}">>,
      Str(<<"a">>),
      <<"1">> }

\* JSON documents whose strings hold an escaped quote or an escaped backslash
EscapedDocs ==
    { <<"[">> \o Str(<<"a", BackSlash, Quote, "a">>) \o <<"]">>,
      <<"[">> \o Str(<<"a", BackSlash, BackSlash, "a">>) \o <<"]">>,
      <<"{">> \o Str(<<"s">>) \o <<":">> \o Str(<<BackSlash, Quote, "a", BackSlash, Quote>>)
          \o <<"}">> }

JsonDocs == PlainDocs \cup EscapedDocs

\* characters before which a backslash is an artifact, not an escape
Ordinary(c) == c \notin EscapeLetters \cup Whitespace

\* the document with a stray backslash put before position k
WithStray(d, k) == SubSeq(d, 1, k - 1) \o <<BackSlash>> \o SubSeq(d, k, Len(d))

\* the ways the LLM writes the document d: as it is, or with one stray
\* backslash before an ordinary character
Bodies(d) ==
    {d} \cup IF d \in PlainDocs
             THEN {WithStray(d, k) : k \in {m \in 1..Len(d) : Ordinary(d[m])}}
             ELSE {}

Commentary == <<"o", "k", ":", "\n">>

\* what the LLM puts before and behind the body
Prefixes ==
    { <<>>, Fence \o <<"\n">>, Fence \o <<"j", "s", "o", "n", "\n">>,
      Commentary \o Fence \o <<"j", "s", "o", "n", "\n">>,
      Fence \o <<"p", "y", "t", "h", "o", "n", " ">> }

Suffixes == { <<>>, <<"\n">> \o Fence, <<"\n">> \o Fence \o <<"\n", "o", "k">> }

----------------------------------------------------------------------------
(* Python values: a dict is an object value, a list an array value, a str a *)
(* string value.  Keys are texts.                                          *)

KTitle == <<"t", "i", "t", "l", "e">>
KSummary == <<"s", "u", "m", "m", "a", "r", "y">>
KMessage == <<"m", "e", "s", "s", "a", "g", "e">>
KUrl == <<"u", "r", "l">>
KType == <<"t", "y", "p", "e">>
KSummaries == <<"s", "u", "m", "m", "a", "r", "i", "e", "s">>
KGeneratedAt == <<"g", "e", "n", "e", "r", "a", "t", "e", "d", "A", "t">>
KCandidates == <<"c", "a", "n", "d", "i", "d", "a", "t", "e", "s">>
KContent == <<"c", "o", "n", "t", "e", "n", "t">>
KParts == <<"p", "a", "r", "t", "s">>
KText == <<"t", "e", "x", "t">>

\* Python's None
NoResult == VLit(<<"N", "o", "n", "e">>)

\* key in d, for a dict d
HasKey(d, key) == d.kind = "obj" /\ DictHas(d.val, key)

\* d[key]
GetKey(d, key) == DictGet(d.val, key)

\* a dict with one entry, and with two
Dict1(k, v) == VObj(<<[key |-> k, val |-> v]>>)
Dict2(k1, v1, k2, v2) == VObj(<<[key |-> k1, val |-> v1], [key |-> k2, val |-> v2]>>)

----------------------------------------------------------------------------
(* create_summary_without_ai *)

\* the number of characters of the description the fallback keeps
SummaryLimit == 300

\* datetime.now().strftime('%Y-%m-%d'): ten characters
Today == <<"2", "0", "2", "6", "-", "1", "1", "-", "0", "2">>

\* the fixed summary of an item without description
Placeholder == <<"see-the-content">>

\* the message of the fallback, built around the item's type
MessageFor(type) == <<"latest-6G-trend:">> \o type \o <<":material">>

\* s[:n]
Take(s, n) == SubSeq(s, 1, IF Len(s) < n THEN Len(s) ELSE n)

\* the keys of an item the fallback reads by subscript, description included
SubscriptedKeysAll == {"title", "description", "url", "type"}

\* the keys of an item the fallback reads by subscript (KeyError if missing);
\* the description is read with get
SubscriptedKeys == {"title", "url", "type"}

\* item.get('description') is truthy
HasDescription(item) == "description" \in DOMAIN item /\ item.description # <<>>

\* lines 684-690: the summary of one item
ItemSummary(item) ==
    VObj(<< [key |-> KTitle, val |-> VStr(item.title)],
            [key |-> KSummary,
             val |-> VStr(IF HasDescription(item)
                          THEN Take(item.description, SummaryLimit)
                          ELSE Placeholder)],
            [key |-> KMessage, val |-> VStr(MessageFor(item.type))],
            [key |-> KUrl, val |-> VStr(item.url)],
            [key |-> KType, val |-> VStr(item.type)] >>)

\* create_summary_without_ai(items): the bundle returned, or the exception
CreateSummaryWithoutAi(its) ==
    IF \E i \in 1..Len(its) : ~(SubscriptedKeys \subseteq DOMAIN its[i])
    THEN [exc |-> "KeyError", val |-> NoResult]
    ELSE [exc |-> "none",
          val |-> Dict2(KSummaries, VArr([i \in 1..Len(its) |-> ItemSummary(its[i])]),
                        KGeneratedAt, VStr(Today))]

\* bound of the lists handed to the fallback
MaxFallbackItems == 2

TypeNames == { <<"J", "o", "u", "r", "n", "a", "l">>, <<"P", "a", "p", "e", "r">>,
               <<"N", "e", "w", "s">> }

\* the url of the item at position i
Digit == <<"1", "2", "3", "4", "5", "6", "7", "8", "9">>
ItemUrl(i) == <<"u", "/", Digit[i]>>

\* descriptions: none (written "-"), empty, short, exactly at the limit and
\* one character over it
Descriptions ==
    { <<"-">>, <<>>, <<"d">>,
      Rep("d", SummaryLimit - 1) \o <<"e">>,
      Rep("d", SummaryLimit - 1) \o <<"e", "f">> }

\* the title of the item at position i
ItemTitle(i) == <<"T", " ", Digit[i]>>

\* the lists of n source items the fallback may be given
FallbackLists(n) ==
    { [i \in 1..n |->
          IF ds[i] = <<"-">>
          THEN [title |-> ItemTitle(i), url |-> ItemUrl(i), type |-> ty[i]]
          ELSE [title |-> ItemTitle(i), description |-> ds[i], url |-> ItemUrl(i),
                type |-> ty[i]]] :
        ds \in [1..n -> Descriptions],
        ty \in [1..n -> TypeNames] }

----------------------------------------------------------------------------
(* summarize_with_gemini *)

\* bound of the lists handed to the summarizer
MaxSelected == 2

\* items as the fetch adapters build them: all four keys present
FetchedLists(n) ==
    { [i \in 1..n |->
          [title |-> <<"a">>, description |-> ds[i], url |-> ItemUrl(i),
           type |-> <<"N", "e", "w", "s">>]] :
        ds \in [1..n -> {<<>>, <<"d">>}] }

\* the keys of an item the prompt construction reads by subscript
PromptKeys == {"title", "description", "url", "type"}

\* status codes of the LLM endpoint
StatusCodes == {200, 400, 429, 500}

\* the status codes after which the request is sent a second time
RetryCodes == {429, 500}

KV(k, v) == Str(k) \o <<":">> \o v
Obj1(k, v) == <<"{">> \o KV(k, v) \o <<"}">>
Arr1(v) == <<"[">> \o v \o <<"]">>

\* texts of the LLM: an array of summaries in fences, an object with a
\* summaries list, objects whose summaries is a string or a number, an
\* object without summaries, scalars, plain words, an array with an escaped
\* quote, and the empty text
SummarizerTexts ==
    { Fence \o <<"j", "s", "o", "n", "\n">> \o Arr1(Obj1(KTitle, Str(<<"a">>)))
          \o <<"\n">> \o Fence,
      Obj1(KSummaries, Arr1(Obj1(KTitle, Str(<<"a">>)))),
      Obj1(KSummaries, Str(<<"a">>)),
      Obj1(KSummaries, <<"1">>),
      Obj1(KTitle, Str(<<"a">>)),
      Str(<<"a">>),
      <<"1">>,
      <<"o", "k">>,
      Arr1(Str(<<"a", BackSlash, Quote, "a">>)),
      <<>> }

\* a response body with the given candidates
WithCandidates(cs) == Dict1(KCandidates, VArr(cs))

\* a candidate whose content holds the given parts
WithParts(ps) == Dict1(KContent, Dict1(KParts, VArr(ps)))

\* response bodies: not JSON (the error value), no candidates, an empty
\* candidate list, a candidate without content, content without parts, an
\* empty part list, a part without text, and a part with each text
ResponseBodies ==
    { VErr,
      VObj(<<>>),
      WithCandidates(<<>>),
      WithCandidates(<<VObj(<<>>)>>),
      WithCandidates(<<Dict1(KContent, VObj(<<>>))>>),
      WithCandidates(<<WithParts(<<>>)>>),
      WithCandidates(<<WithParts(<<VObj(<<>>)>>)>>) }
    \cup { WithCandidates(<<WithParts(<<Dict1(KText, VStr(t))>>)>>) : t \in SummarizerTexts }

\* lines 601 and 610: the body holds a first candidate with a first part
HasFirstPart(d) ==
    /\ HasKey(d, KCandidates) /\ Len(GetKey(d, KCandidates).val) > 0
    /\ LET candidate == GetKey(d, KCandidates).val[1]
       IN  /\ HasKey(candidate, KContent)
           /\ HasKey(GetKey(candidate, KContent), KParts)
           /\ Len(GetKey(GetKey(candidate, KContent), KParts).val) > 0

\* line 611: candidate['content']['parts'][0].get('text', '')
FirstPartText(d) ==
    LET part == GetKey(GetKey(GetKey(d, KCandidates).val[1], KContent), KParts).val[1]
    IN  IF HasKey(part, KText) THEN GetKey(part, KText).str ELSE <<>>

\* exception classes
RequestExceptions == {"ConnectionError", "HTTPError"}
OtherExceptions == {"ValueError", "TypeError", "OSError"}

\* an except clause for requests.exceptions.RequestException only
CatchesRequestOnly(e) == e \in RequestExceptions

\* lines 668-673: except RequestException, then except Exception
Catches(e) == e \in RequestExceptions \/ e \in OtherExceptions

\* a len that raises for no value
SizedAlways(x) == FALSE

\* len(x) raises TypeError
Unsized(x) == x.kind \in {"num", "lit"}

----------------------------------------------------------------------------
(* select_top_items_for_ran_engineers *)

\* bounds of the collected items and of top_n
MaxCollected == 2
MaxTopN == 2

\* the keys of an item the selection prompt reads by subscript (lines 372-375)
SelectionKeys == {"title", "description", "type"}

Arr2(v, w) == <<"[">> \o v \o <<",", " ">> \o w \o <<"]">>
Arr3(u, v, w) == <<"[">> \o u \o <<",", " ">> \o v \o <<",", " ">> \o w \o <<"]">>

\* texts of the LLM: index arrays in and out of order, with a repeated
\* index, too short, with indices out of range, with a boolean, with a string
\* and with a negative number, an array in fences, an object that wraps the
\* array, an object without array, a number, plain words and the empty text
SelectorTexts ==
    { Arr2(<<"1">>, <<"2">>),
      Arr2(<<"2">>, <<"1">>),
      Arr2(<<"1">>, <<"1">>),
      Arr3(<<"1">>, <<"2">>, <<"1">>),
      Arr3(<<"3">>, <<"2">>, <<"1">>),
      Arr1(<<"1">>),
      Arr2(<<"0">>, <<"9">>),
      Arr2(<<"t", "r", "u", "e">>, <<"2">>),
      Arr2(Str(<<"1">>), <<"2">>),
      Arr2(<<"-", "1">>, <<"1">>),
      Arr1(<<>>),
      <<" ">> \o Fence \o <<"j", "s", "o", "n", "\n">> \o Arr2(<<"2">>, <<"1">>)
          \o <<"\n">> \o Fence \o <<"\n">>,
      Obj1(<<"s">>, Arr2(<<"1">>, <<"2">>)),
      Obj1(<<"s">>, <<"1">>),
      <<"1">>,
      <<"o", "k">>,
      <<>> }

\* response bodies of the selection request
SelectorBodies ==
    { VErr,
      VObj(<<>>),
      VArr(<<>>),
      WithCandidates(<<>>),
      WithCandidates(<<VObj(<<>>)>>),
      WithCandidates(<<Dict1(KContent, VObj(<<>>))>>),
      WithCandidates(<<WithParts(<<>>)>>),
      WithCandidates(<<WithParts(<<VObj(<<>>)>>)>>) }
    \cup { WithCandidates(<<WithParts(<<Dict1(KText, VStr(t))>>)>>) : t \in SelectorTexts }

\* the number a digit stands for
DigitValue(c) ==
    CASE c = "0" -> 0 [] c = "1" -> 1 [] c = "2" -> 2 [] c = "3" -> 3 [] c = "4" -> 4
      [] c = "5" -> 5 [] c = "6" -> 6 [] c = "7" -> 7 [] c = "8" -> 8 [] c = "9" -> 9

\* the number a sequence of digits stands for
RECURSIVE Magnitude(_)
Magnitude(s) ==
    IF s = <<>> THEN 0 ELSE 10 * Magnitude(SubSeq(s, 1, Len(s) - 1)) + DigitValue(s[Len(s)])

\* isinstance(idx, int): the integers of JSON, and true and false (bool is a
\* subclass of int)
IsInt(idx) ==
    \/ idx.kind = "num"
    \/ idx.kind = "lit" /\ idx.str \in {<<"t", "r", "u", "e">>, <<"f", "a", "l", "s", "e">>}

\* the value of an int
IntValue(idx) ==
    IF idx.kind = "lit" THEN (IF idx.str = <<"t", "r", "u", "e">> THEN 1 ELSE 0)
    ELSE IF Head(idx.str) = "-" THEN 0 - Magnitude(Tail(idx.str))
    ELSE Magnitude(idx.str)

\* an index test that takes the indices for 0-indexed
ValidIndexFromZero(idx, n) == IsInt(idx) /\ 0 <= IntValue(idx) /\ IntValue(idx) < n

\* line 468: isinstance(idx, int) and 1 <= idx <= len(all_items)
ValidIndex(idx, n) == IsInt(idx) /\ 1 <= IntValue(idx) /\ IntValue(idx) <= n

\* lines 466-471: the items at the valid indices, in the order of the indices
RECURSIVE PickItems(_, _)
PickItems(all, selected_indices) ==
    IF selected_indices = <<>> THEN <<>>
    ELSE LET idx == Head(selected_indices)
             rest == PickItems(all, Tail(selected_indices))
         IN  IF ValidIndex(idx, Len(all)) THEN <<all[IntValue(idx)]>> \o rest ELSE rest

\* a choice that returns the picked items however few they are
TopOrPicked(all, picked, n) == Take(picked, n)

\* lines 473-478: the first n picked items if there are n, else the first n
\* of all items
TopOrFirst(all, picked, n) == IF Len(picked) >= n THEN Take(picked, n) ELSE Take(all, n)

\* line 500: except Exception
SelectorCatches(e) == e \in RequestExceptions \cup OtherExceptions

----------------------------------------------------------------------------
(* extract_hot_keywords *)

\* lines 63, 149 and 155: the keyword returned when the extraction fails
DefaultKeyword ==
    <<"6", "G", " ", "w", "i", "r", "e", "l", "e", "s", "s", " ",
      "c", "o", "m", "m", "u", "n", "i", "c", "a", "t", "i", "o", "n", "s">>

\* line 107: the status code after which the keyword request is sent a
\* second time
KeywordRetryCodes == {429}

\* texts of the LLM: phrases, phrases in quotes and blanks, with an
\* apostrophe and with a line break, nothing but quotes and blanks, and the
\* empty text
KeywordTexts ==
    { <<"6", "G", " ", "R", "A", "N">>,
      <<"O", "-", "R", "A", "N">>,
      <<" ", Quote, "6", "G", " ", "R", "A", "N", Quote, "\n">>,
      <<"'", "6", "G", "'">>,
      <<"6", "G", "'", "s", " ", "A", "I">>,
      <<"6", "G", "\n", "R", "A", "N">>,
      <<Quote, " ", "6", "G", " ", Quote>>,
      <<"'", " ", "'">>,
      <<Quote, Quote>>,
      <<"\t", "\n">>,
      <<>> }

KFinishReason == <<"f", "i", "n", "i", "s", "h", "R", "e", "a", "s", "o", "n">>
MaxTokens == <<"M", "A", "X", "_", "T", "O", "K", "E", "N", "S">>

\* response bodies of the keyword request: not JSON, a list, no candidates,
\* an empty candidate list, a candidate that is no dict, a candidate without
\* content, content without parts, an empty part list, a part without text,
\* a candidate cut off at the token limit without content and without parts,
\* a text in the second candidate only and in the second part only, and a
\* part with each text
KeywordBodies ==
    { VErr,
      VArr(<<>>),
      VObj(<<>>),
      WithCandidates(<<>>),
      WithCandidates(<<VStr(<<"a">>)>>),
      WithCandidates(<<VObj(<<>>)>>),
      WithCandidates(<<Dict1(KContent, VObj(<<>>))>>),
      WithCandidates(<<WithParts(<<>>)>>),
      WithCandidates(<<WithParts(<<VObj(<<>>)>>)>>),
      WithCandidates(<<Dict1(KFinishReason, VStr(MaxTokens))>>),
      WithCandidates(<<Dict2(KFinishReason, VStr(MaxTokens), KContent, VObj(<<>>))>>),
      WithCandidates(<<VObj(<<>>), WithParts(<<Dict1(KText, VStr(<<"6", "G">>))>>)>>),
      WithCandidates(<<WithParts(<<VObj(<<>>), Dict1(KText, VStr(<<"6", "G">>))>>)>>) }
    \cup { WithCandidates(<<WithParts(<<Dict1(KText, VStr(t))>>)>>) : t \in KeywordTexts }

\* lines 134-135: strip, delete both kinds of quotes, strip
CleanKeyword(t) == Strip(Replace(Replace(Strip(t), <<Quote>>, <<>>), <<"'">>, <<>>))

\* lines 118 and 124: data.keys() and candidate.keys() raise AttributeError on
\* a value that is no dict
KeysFail(d) ==
    \/ d.kind # "obj"
    \/ /\ HasKey(d, KCandidates) /\ Len(GetKey(d, KCandidates).val) > 0
       /\ GetKey(d, KCandidates).val[1].kind # "obj"

\* line 151: except Exception
KeywordCatches(e) == e \in RequestExceptions \cup OtherExceptions \cup {"AttributeError"}

----------------------------------------------------------------------------
(* The fetch adapters: search_ieee, search_arxiv, search_google_news *)

\* status codes of the sources: success, bad request, forbidden, quota,
\* server error
SourceStatusCodes == {200, 400, 403, 429, 500}

KArticles == <<"a", "r", "t", "i", "c", "l", "e", "s">>
KAbstract == <<"a", "b", "s", "t", "r", "a", "c", "t">>
KArticleNumber == <<"a", "r", "t", "i", "c", "l", "e", "_", "n", "u", "m", "b", "e", "r">>
KPublicationTitle == <<"p", "u", "b", "l", "i", "c", "a", "t", "i", "o", "n", "_", "t", "i", "t", "l", "e">>

\* d.get(key, default)
GetOr(d, key, default) == IF HasKey(d, key) THEN GetKey(d, key) ELSE default

Null == VLit(<<"n", "u", "l", "l">>)

\* lines 280-283: the defaults of article.get
NoTitle == <<"No title">>
NoAbstract == <<"No abstract available">>
DocumentUrl == <<"https://ieeexplore.ieee.org/document/">>

\* line 286: the abstract is cut at AbstractLimit characters
AbstractLimit == 200
Ellipsis == <<".", ".", ".">>

\* articles of IEEE Xplore: complete, with a null abstract, and no dict at
\* all
IeeeArticles ==
    { VObj(<<[key |-> KTitle, val |-> VStr(<<"J">>)],
             [key |-> KAbstract, val |-> VStr(<<"a">>)],
             [key |-> KArticleNumber, val |-> VStr(<<"7">>)],
             [key |-> KPublicationTitle, val |-> VStr(<<"T">>)]>>),
      Dict2(KTitle, VStr(<<"J">>), KAbstract, Null),
      VStr(<<"J">>) }

\* response.json() of IEEE Xplore: not JSON, a list, an object without
\* articles, an empty article list, and one article
IeeeBodies ==
    { VErr, VArr(<<>>), VObj(<<>>), Dict1(KArticles, VArr(<<>>)) }
    \cup { Dict1(KArticles, VArr(<<a>>)) : a \in IeeeArticles }

\* the responses of a source: a transport error (body none), or a status
\* code and a body
Responses(bodies, none) ==
    { [neterr |-> TRUE, status |-> 0, body |-> none] }
    \cup { [neterr |-> FALSE, status |-> st, body |-> b] : st \in SourceStatusCodes, b \in bodies }

\* lines 279-295: the item of an article
IeeeItem(article) ==
    LET abstract == GetOr(article, KAbstract, VStr(NoAbstract)).str
        publication_title == GetOr(article, KPublicationTitle, VStr(<<>>)).str
        short == IF Len(abstract) > AbstractLimit
                 THEN SubSeq(abstract, 1, AbstractLimit) \o Ellipsis ELSE abstract
    IN  [title |-> GetOr(article, KTitle, VStr(NoTitle)).str,
         description |-> IF publication_title # <<>>
                         THEN <<"[">> \o publication_title \o <<"]", " ">> \o short
                         ELSE short,
         url |-> DocumentUrl \o GetOr(article, KArticleNumber, VStr(<<>>)).str,
         type |-> <<"J", "o", "u", "r", "n", "a", "l">>]

\* lines 270-308: the request raised, the status is an error, the body is
\* not JSON or not a dict, articles is not a list of dicts with string
\* abstracts
IeeeRaises(r) ==
    \/ r.neterr
    \/ r.status >= 400
    \/ r.body.kind # "obj"
    \/ LET articles == GetOr(r.body, KArticles, VArr(<<>>))
       IN  \/ articles.kind # "arr"
           \/ \E k \in 1..Len(articles.val) :
                 \/ articles.val[k].kind # "obj"
                 \/ GetOr(articles.val[k], KAbstract, VStr(NoAbstract)).kind # "str"

\* lines 245-308: search_ieee, with or without an API key, on the response r
SearchIeee(has_key, r) ==
    IF ~has_key \/ IeeeRaises(r) THEN <<>>
    ELSE LET articles == GetOr(r.body, KArticles, VArr(<<>>)).val
         IN  [k \in 1..Len(articles) |-> IeeeItem(articles[k])]

\* line 233: the summary is cut at ArxivLimit characters
ArxivLimit == 300

\* entries of an arXiv feed: a paper, the entry of an error feed, and an
\* entry without summary
ArxivEntries ==
    { [title |-> <<" ", "P", "\n">>, summary |-> <<"s", " ">>, id |-> <<"x", "/", "1">>],
      [title |-> <<"Error">>, summary |-> <<"bad-query">>, id |-> <<"x", "/", "errors">>],
      [title |-> <<"P">>, id |-> <<"x", "/", "2">>] }

\* the feeds of arXiv: no entry (also a body that is no feed), one entry, and
\* a paper followed by an entry without summary
ArxivBodies ==
    { <<>> } \cup { <<e>> : e \in ArxivEntries }
    \cup { <<[title |-> <<"P">>, summary |-> <<"s">>, id |-> <<"x", "/", "3">>],
             [title |-> <<"P">>, id |-> <<"x", "/", "2">>]>> }

\* lines 226-236: the item of an entry
ArxivItem(entry) ==
    [title |-> Strip(entry.title),
     description |-> Take(Strip(entry.summary), ArxivLimit),
     url |-> Strip(entry.id),
     type |-> <<"P", "a", "p", "e", "r">>]

\* lines 219-243: the request raised, or an entry lacks one of its elements
ArxivRaises(r) ==
    \/ r.neterr
    \/ \E k \in 1..Len(r.body) : ~({"title", "summary", "id"} \subseteq DOMAIN r.body[k])

\* lines 205-243: search_arxiv on the response r
SearchArxiv(r) ==
    IF ArxivRaises(r) THEN <<>>
    ELSE [k \in 1..Len(r.body) |-> ArxivItem(r.body[k])]

\* line 1874: num_results of search_google_news
NumResults == 10

\* items of a Google News feed: complete, without link, and with none of
\* the elements the adapter reads
NewsEntries ==
    { [title |-> <<"N">>, link |-> <<"g", "/", "1">>, description |-> <<"d">>,
       pubDate |-> <<"today">>],
      [title |-> <<"N">>, description |-> <<"d">>],
      [guid |-> <<"g">>] }

\* the feeds of Google News: no item (also a body that is no feed) and one
\* item
NewsBodies == { <<>> } \cup { <<e>> : e \in NewsEntries }

\* the text of a child element, '' if there is none
TextOr(entry, field) == IF field \in DOMAIN entry THEN entry[field] ELSE <<>>

\* the URL a redirect URL leads to
Resolved(redirect_url) == <<"n", "/">> \o Tail(Tail(redirect_url))

\* lines 327-348: the item of a feed item; head tells whether the redirect
\* of the link could be followed
NewsItem(entry, head) ==
    LET redirect_url == TextOr(entry, "link")
    IN  [title |-> TextOr(entry, "title"),
         description |-> TextOr(entry, "description"),
         url |-> IF redirect_url # <<>> /\ head THEN Resolved(redirect_url) ELSE redirect_url,
         pub_date |-> TextOr(entry, "pubDate"),
         type |-> <<"N", "e", "w", "s">>]

\* lines 317-355: search_google_news on the response r
SearchGoogleNews(r, head) ==
    IF r.neterr \/ r.status >= 400 THEN <<>>
    ELSE LET found == Take(r.body, NumResults)
         IN  [k \in 1..Len(found) |-> NewsItem(found[k], head)]

\* the failures of a request: transport error and error status
RequestFailed(r) == r.neterr \/ r.status >= 400

----------------------------------------------------------------------------
(* send_visual_telegram: the message.  A character outside ASCII is written *)
(* as its code point, one element of the text as it is one character of    *)
(* the Python string.                                                      *)

\* line 1649 (43 characters)
HeaderTitle ==
    <<"U+1F52C", " ", "<", "b", ">", "6", "G", " ", "T", "e", "c", "h", "n",
      "o", "l", "o", "g", "y", " ", "I", "n", "t", "e", "l", "l", "i", "g",
      "e", "n", "c", "e", " ", "R", "e", "p", "o", "r", "t", "<", "/", "b",
      ">", "\n">>

\* line 1650 (5 characters)
DateOpen ==
    <<"U+1F4C5", " ", "<", "i", ">">>

\* line 1650 (6 characters)
DateClose ==
    <<"<", "/", "i", ">", "\n", "\n">>

\* line 1651 (23 characters)
QuickSummary ==
    <<"U+1F4CA", " ", "<", "b", ">", "Q", "u", "i", "c", "k", " ", "S", "u",
      "m", "m", "a", "r", "y", "<", "/", "b", ">", "\n">>

\* line 1652 (15 characters)
JournalsCount ==
    <<"U+251C", "U+2500", " ", "U+1F4DA", " ", "J", "o", "u", "r", "n", "a",
      "l", "s", ":", " ">>

\* line 1653 (13 characters)
PapersCount ==
    <<"U+251C", "U+2500", " ", "U+1F4C4", " ", "P", "a", "p", "e", "r", "s",
      ":", " ">>

\* line 1654 (11 characters)
NewsCount ==
    <<"U+2514", "U+2500", " ", "U+1F4F0", " ", "N", "e", "w", "s", ":", " ">>

\* line 1658 (36 characters)
KeywordOpen ==
    <<"U+1F525", " ", "<", "b", ">", "T", "o", "d", "a", "y", "'", "s", " ",
      "H", "o", "t", " ", "K", "e", "y", "w", "o", "r", "d", ":", "<", "/",
      "b", ">", " ", "<", "c", "o", "d", "e", ">">>

\* line 1658 (9 characters)
KeywordClose ==
    <<"<", "/", "c", "o", "d", "e", ">", "\n", "\n">>

\* line 1660 (22 characters)
Rule ==
    <<"U+2501", "U+2501", "U+2501", "U+2501", "U+2501", "U+2501", "U+2501",
      "U+2501", "U+2501", "U+2501", "U+2501", "U+2501", "U+2501", "U+2501",
      "U+2501", "U+2501", "U+2501", "U+2501", "U+2501", "U+2501", "\n", "\n">>

\* lines 1662-1664 (101 characters)
FooterText ==
    <<"\n", "U+2501", "U+2501", "U+2501", "U+2501", "U+2501", "U+2501",
      "U+2501", "U+2501", "U+2501", "U+2501", "U+2501", "U+2501", "U+2501",
      "U+2501", "U+2501", "U+2501", "U+2501", "U+2501", "U+2501", "U+2501",
      "\n", "\n", "U+1F916", " ", "<", "i", ">", "A", "u", "t", "o", "m",
      "a", "t", "e", "d", " ", "R", "e", "p", "o", "r", "t", " ", "f", "o",
      "r", " ", "6", "G", " ", "E", "n", "g", "i", "n", "e", "e", "r", "s",
      "<", "/", "i", ">", "\n", "U+1F4E7", " ", "<", "i", ">", "F", "u", "l",
      "l", " ", "d", "e", "t", "a", "i", "l", "s", " ", "i", "n", " ", "y",
      "o", "u", "r", " ", "e", "m", "a", "i", "l", "<", "/", "i", ">">>

\* line 1674 (28 characters)
JournalHeading ==
    <<"U+1F4DA", " ", "<", "b", ">", "A", "C", "A", "D", "E", "M", "I", "C",
      " ", "J", "O", "U", "R", "N", "A", "L", "S", "<", "/", "b", ">", "\n",
      "\n">>

\* line 1700 (26 characters)
PaperHeading ==
    <<"U+1F4C4", " ", "<", "b", ">", "R", "E", "S", "E", "A", "R", "C", "H",
      " ", "P", "A", "P", "E", "R", "S", "<", "/", "b", ">", "\n", "\n">>

\* line 1727 (24 characters)
NewsHeading ==
    <<"U+1F4F0", " ", "<", "b", ">", "I", "N", "D", "U", "S", "T", "R", "Y",
      " ", "N", "E", "W", "S", "<", "/", "b", ">", "\n", "\n">>

\* lines 1686, 1712 and 1740 (11 characters)
LinkOpen ==
    <<"U+1F517", " ", "<", "a", " ", "h", "r", "e", "f", "=", Quote>>

\* line 1686 (20 characters)
ReadArticle ==
    <<Quote, ">", "R", "e", "a", "d", " ", "A", "r", "t", "i", "c", "l", "e",
      "<", "/", "a", ">", "\n", "\n">>

\* line 1712 (18 characters)
ReadPaper ==
    <<Quote, ">", "R", "e", "a", "d", " ", "P", "a", "p", "e", "r", "<", "/",
      "a", ">", "\n", "\n">>

\* line 1740 (17 characters)
ReadNews ==
    <<Quote, ">", "R", "e", "a", "d", " ", "N", "e", "w", "s", "<", "/", "a",
      ">", "\n", "\n">>

\* lines 1688, 1714 and 1742 (15 characters)
ItemRule ==
    <<"U+2500", "U+2500", "U+2500", "U+2500", "U+2500", "U+2500", "U+2500",
      "U+2500", "U+2500", "U+2500", "U+2500", "U+2500", "U+2500", "\n", "\n">>

\* line 1753 (11 characters)
MoreOpen ==
    <<"<", "i", ">", ".", ".", ".", " ", "a", "n", "d", " ">>

\* line 1753 (22 characters)
MoreClose ==
    <<" ", "m", "o", "r", "e", " ", "n", "e", "w", "s", " ", "i", "t", "e",
      "m", "s", "<", "/", "i", ">", "\n", "\n">>

\* line 1667: SAFE_LENGTH
SafeLength == 3500

\* lines 1677, 1703 and 1731: the title is cut at TitleLimit characters
TitleLimit == 100

\* lines 1681 and 1707: the summary of a journal or paper is cut here
LongSummaryLimit == 200

\* line 1735: the summary of a news item is cut here
NewsSummaryLimit == 150

TJournal == <<"J", "o", "u", "r", "n", "a", "l">>
TPaper == <<"P", "a", "p", "e", "r">>
TNews == <<"N", "e", "w", "s">>

\* html.escape of one character (quote=True)
EscapeChar(c) ==
    CASE c = "&" -> <<"&", "a", "m", "p", ";">>
      [] c = "<" -> <<"&", "l", "t", ";">>
      [] c = ">" -> <<"&", "g", "t", ";">>
      [] c = Quote -> <<"&", "q", "u", "o", "t", ";">>
      [] c = "'" -> <<"&", "#", "x", "2", "7", ";">>
      [] OTHER -> <<c>>

\* html.escape(s)
RECURSIVE HtmlEscape(_)
HtmlEscape(s) ==
    IF s = <<>> THEN <<>>
    ELSE IF Len(s) = 1 THEN EscapeChar(s[1])
    ELSE LET half == Len(s) \div 2
         IN  HtmlEscape(SubSeq(s, 1, half)) \o HtmlEscape(SubSeq(s, half + 1, Len(s)))

\* str(n) of a natural number
RECURSIVE Decimal(_)
Decimal(n) ==
    LET d == <<"0", "1", "2", "3", "4", "5", "6", "7", "8", "9">>[(n % 10) + 1]
    IN  IF n < 10 THEN <<d>> ELSE Decimal(n \div 10) \o <<d>>

\* lines 1644-1645: item.get('type', 'News') is a key of groups
KnownType(item) ==
    /\ item.kind = "obj"
    /\ GetOr(item, KType, VStr(TNews)).kind = "str"
    /\ GetOr(item, KType, VStr(TNews)).str \in {TJournal, TPaper, TNews}

\* lines 1642-1645: the items of a type, in their order
RECURSIVE Group(_, _)
Group(its, type) ==
    IF its = <<>> THEN <<>>
    ELSE IF GetOr(Head(its), KType, VStr(TNews)).str = type
         THEN <<Head(its)>> \o Group(Tail(its), type)
         ELSE Group(Tail(its), type)

\* item['title'][:100] and item['summary'][:n] are texts
Sliceable(item) ==
    /\ HasKey(item, KTitle) /\ GetKey(item, KTitle).kind = "str"
    /\ HasKey(item, KSummary) /\ GetKey(item, KSummary).kind = "str"

\* item.get('url') is a text that is not empty
HasLink(item) == HasKey(item, KUrl) /\ GetKey(item, KUrl).kind = "str" /\ GetKey(item, KUrl).str # <<>>

\* lines 1676-1688, 1702-1714 and 1730-1742: the text of the i-th item of a
\* section, with the summary cut at limit and the link labelled read
ItemText(item, i, limit, read) ==
    <<"<", "b", ">">> \o Decimal(i) \o <<".", " ">>
        \o HtmlEscape(Take(GetKey(item, KTitle).str, TitleLimit))
        \o <<"<", "/", "b", ">", "\n", "\n">>
        \o HtmlEscape(Take(GetKey(item, KSummary).str, limit)) \o <<".", ".", ".", "\n", "\n">>
        \o (IF HasLink(item) THEN LinkOpen \o GetKey(item, KUrl).str \o read ELSE <<>>)
        \o ItemRule

\* lines 1675-1694, 1701-1721 and 1729-1750: the loop over the items of a
\* section from the i-th on; before is the header and the sections so far.
\* The loop ends at the first item that does not fit.
RECURSIVE SectionLoop(_, _, _, _, _, _)
SectionLoop(before, section, its, i, limit, read) ==
    IF i > Len(its) THEN [exc |-> "none", section |-> section, count |-> i - 1]
    ELSE IF ~Sliceable(its[i]) THEN [exc |-> "KeyError", section |-> section, count |-> i - 1]
    ELSE LET item_text == ItemText(its[i], i, limit, read)
         IN  IF Len(before) + Len(section) + Len(item_text) + Len(FooterText) < SafeLength
             THEN SectionLoop(before, section \o item_text, its, i + 1, limit, read)
             ELSE [exc |-> "none", section |-> section, count |-> i - 1]

\* lines 1673-1696 and 1699-1723: a section if the group is not empty
Section(before, heading, its, limit, read) ==
    IF its = <<>> THEN [exc |-> "none", section |-> <<>>, count |-> 0]
    ELSE SectionLoop(before, heading, its, 1, limit, read)

\* lines 1752-1753: the line that tells how many news items are left out
MoreLine(total, news_count) ==
    IF total > news_count THEN MoreOpen \o Decimal(total - news_count) \o MoreClose ELSE <<>>

\* lines 1649-1660: the header
Header(generatedAt, nj, np, nn, kw) ==
    HeaderTitle \o DateOpen \o HtmlEscape(generatedAt) \o DateClose \o QuickSummary
        \o JournalsCount \o Decimal(nj) \o <<"\n">>
        \o PapersCount \o Decimal(np) \o <<"\n">>
        \o NewsCount \o Decimal(nn) \o <<"\n", "\n">>
        \o (IF kw # <<>> THEN KeywordOpen \o HtmlEscape(kw) \o KeywordClose
            ELSE <<>>)
        \o Rule

\* the elements a for loop over x takes: of a list its elements, of a str
\* its characters, of a dict its keys
Elements(x) ==
    IF x.kind = "arr" THEN x.val
    ELSE IF x.kind = "obj" THEN [k \in 1..Len(x.val) |-> VStr(x.val[k].key)]
    ELSE [k \in 1..Len(x.str) |-> VStr(<<x.str[k]>>)]

\* lines 1642-1759: the message send_visual_telegram assembles for the
\* bundle and the hot keyword kw (<<>> for none), or the exception it raises
TelegramMessage(bundle, kw) ==
    IF ~HasKey(bundle, KSummaries) THEN [exc |-> "KeyError", val |-> <<>>]
    ELSE IF Unsized(GetKey(bundle, KSummaries)) THEN [exc |-> "TypeError", val |-> <<>>]
    ELSE LET its == Elements(GetKey(bundle, KSummaries))
         IN  IF \E k \in 1..Len(its) : its[k].kind # "obj"
             THEN [exc |-> "AttributeError", val |-> <<>>]
             ELSE IF \E k \in 1..Len(its) : ~KnownType(its[k])
             THEN [exc |-> "KeyError", val |-> <<>>]
             ELSE IF ~HasKey(bundle, KGeneratedAt)
             THEN [exc |-> "KeyError", val |-> <<>>]
             ELSE IF GetKey(bundle, KGeneratedAt).kind # "str"
             THEN [exc |-> "AttributeError", val |-> <<>>]
             ELSE
    LET group_journal == Group(its, TJournal)
        group_paper == Group(its, TPaper)
        group_news == Group(its, TNews)
        header == Header(GetKey(bundle, KGeneratedAt).str,
                         Len(group_journal), Len(group_paper), Len(group_news), kw)
        j == Section(header, JournalHeading, group_journal, LongSummaryLimit, ReadArticle)
        p == Section(header \o j.section, PaperHeading, group_paper, LongSummaryLimit, ReadPaper)
        n == Section(header \o j.section \o p.section, NewsHeading, group_news,
                     NewsSummaryLimit, ReadNews)
    IN  IF j.exc # "none" THEN [exc |-> j.exc, val |-> <<>>]
        ELSE IF p.exc # "none" THEN [exc |-> p.exc, val |-> <<>>]
        ELSE IF n.exc # "none" THEN [exc |-> n.exc, val |-> <<>>]
        ELSE [exc |-> "none",
              val |-> header \o j.section \o p.section \o n.section
                          \o (IF group_news # <<>> THEN MoreLine(Len(group_news), n.count) ELSE <<>>)
                          \o FooterText]

----------------------------------------------------------------------------
(* main and the publishers save_to_file and send_email; the entry points   *)
(* of fetch_and_email.py and fetch_and_email_gemini.py                     *)

\* the environment variables that hold credentials
LlmKey == "GEMINI_API_KEY"
IeeeKey == "IEEE_API_KEY"
AnthropicKey == "ANTHROPIC_API_KEY"
EmailCredentials == {"GMAIL_USER", "GMAIL_APP_PASSWORD", "RECIPIENT_EMAIL"}
ChatCredentials == {"TELEGRAM_BOT_TOKEN", "TELEGRAM_CHAT_ID"}
Credentials == {LlmKey, IeeeKey, AnthropicKey} \cup EmailCredentials \cup ChatCredentials

\* the environments: every credential set, one credential missing or
\* empty, and none set
Environments == {Credentials, {}} \cup {Credentials \ {c} : c \in Credentials}

\* the entry-point scripts
Scripts == {"fetch_6g_professional", "fetch_and_email_gemini", "fetch_and_email"}

\* line 1890: top_n of the selection in main
MainTopN == 10

\* a check that never finds the list empty
NoItemsNever(all) == FALSE

\* line 1882: if not all_items
NoItems(all) == all = <<>>

\* the keys of a summary the file and the email are rendered from (lines
\* 1518-1538 and 1801-1805)
RenderedKeys == {KTitle, KSummary, KMessage, KUrl}

\* a summary item as the LLM writes it, with the given keys
LlmSummary(keys, type) ==
    VObj([k \in 1..Len(keys) |->
             [key |-> keys[k], val |-> VStr(IF keys[k] = KType THEN type ELSE <<"a">>)]])

\* the bundles summarize_with_gemini returns from an LLM text: a list of
\* complete summaries, a summary with a title only, a summary of a type
\* that is none of the three, and an object whose summaries is a string
\* (returned as it is, without generatedAt)
LlmBundles ==
    { Dict2(KSummaries, VArr(<<LlmSummary(<<KTitle, KSummary, KMessage, KUrl, KType>>, TPaper)>>),
            KGeneratedAt, VStr(Today)),
      Dict2(KSummaries, VArr(<<LlmSummary(<<KTitle>>, TNews)>>), KGeneratedAt, VStr(Today)),
      Dict2(KSummaries,
            VArr(<<LlmSummary(<<KTitle, KSummary, KMessage, KUrl, KType>>, <<"R", "e", "p", "o", "r", "t">>)>>),
            KGeneratedAt, VStr(Today)),
      Dict1(KSummaries, VStr(<<"a">>)) }

\* lines 1411-1532 and 1785-1831: rendering the bundle to the file or to
\* the HTML of the email raises
RenderRaises(bundle) ==
    \/ ~HasKey(bundle, KGeneratedAt)
    \/ ~HasKey(bundle, KSummaries)
    \/ Unsized(GetKey(bundle, KSummaries))
    \/ LET its == Elements(GetKey(bundle, KSummaries))
       IN  \E k \in 1..Len(its) :
              \/ ~KnownType(its[k])
              \/ \E key \in RenderedKeys : ~HasKey(its[k], key)

\* line 1926: len(summary_data['summaries']) raises
ReportRaises(bundle) == ~HasKey(bundle, KSummaries) \/ Unsized(GetKey(bundle, KSummaries))

KTop5 == <<"t", "o", "p", "5">>
KSignificance == <<"s", "i", "g", "n", "i", "f", "i", "c", "a", "n", "c", "e">>

\* the news data of the two older scripts: the empty-news record, a summary
\* from an LLM text, and an LLM text without generatedAt
NewsData ==
    { Dict2(KTop5, VArr(<<VObj(<<[key |-> KTitle, val |-> VStr(<<"a">>)],
                                 [key |-> KSummary, val |-> VStr(<<"a">>)],
                                 [key |-> KSignificance, val |-> VStr(<<"a">>)]>>)>>),
            KGeneratedAt, VStr(Today)),
      Dict2(KTop5, VArr(<<>>), KGeneratedAt, VStr(Today)),
      Dict1(KTop5, VArr(<<>>)) }

\* fetch_and_email_gemini.py lines 438-453 and 392-415: rendering the news
\* data raises
NewsRenderRaises(nd) ==
    \/ ~HasKey(nd, KGeneratedAt)
    \/ ~HasKey(nd, KTop5)
    \/ Unsized(GetKey(nd, KTop5))
    \/ LET its == Elements(GetKey(nd, KTop5))
       IN  \E k \in 1..Len(its) :
              \E key \in {KTitle, KSummary, KSignificance} : ~HasKey(its[k], key)

\* send_email with a credential missing: fetch_6g_professional.py returns
\* (lines 1580-1586), the older scripts raise ValueError
\* (fetch_and_email_gemini.py lines 386-387, fetch_and_email.py lines 227-228)
MissingEmailCredentialRaises(name) == name # "fetch_6g_professional"

----------------------------------------------------------------------------
(* The components at rest *)

\* the reconciler at rest
UrlIdle ==
    /\ original_items = <<>> /\ returned = <<>> /\ summaries = <<>>
    /\ original_map = <<>> /\ upos = 1 /\ upc = "idle"

\* the sanitizer at rest
JsonIdle ==
    /\ doc = <<>> /\ body = <<>> /\ text = <<>>
    /\ json_text = <<>> /\ clean_text = <<>>
    /\ parsed = VErr
    /\ jpc = "idle"

\* no summarizer call in progress
SumIdle ==
    /\ items = <<>> /\ api_key = "unset" /\ attempts = 0 /\ neterr = FALSE
    /\ status = 0 /\ data = NoResult /\ stext = <<>>
    /\ result = NoResult /\ exc = "none" /\ spc = "idle"

\* no selection and no keyword extraction in progress
SelIdle == all_items = <<>> /\ top_n = 0 /\ selected_items = <<>> /\ keyword = <<>>

\* no entry point running
MainIdle ==
    /\ script = "none" /\ env = {} /\ mpc = "idle" /\ calls = <<>> /\ failed = {}
    /\ hot_keyword = <<>> /\ journals = <<>> /\ papers_arxiv = <<>> /\ news = <<>>
    /\ summary_data = NoResult /\ message = <<>> /\ sent = {} /\ main_exc = "none"

----------------------------------------------------------------------------
(* Specification of _preserve_original_urls *)

UrlInit ==
    /\ JsonIdle /\ SumIdle /\ SelIdle /\ MainIdle
    /\ original_items \in UNION {ItemLists(n) : n \in 0..MaxItems}
    /\ returned \in UNION {SummaryLists(n) : n \in 0..MaxSummaries}
    /\ summaries = returned
    /\ original_map = <<>>
    /\ upos = 1
    /\ upc = "map"

\* lines 16-20: build the title -> url dict
BuildOriginalMap ==
    /\ upc = "map"
    /\ original_map' = BuildMap(original_items, Len(original_items))
    /\ upc' = IF Len(summaries) = 0 THEN "done" ELSE "restore"
    /\ UNCHANGED <<original_items, returned, summaries, upos, jsonVars, sumVars, selVars, mainVars>>

\* lines 23-36: one iteration of the loop over the summaries
RestoreUrl ==
    /\ upc = "restore"
    /\ upos <= Len(summaries)
    /\ summaries' = [summaries EXCEPT ![upos] = RestoreOne(original_map, summaries[upos])]
    /\ upos' = upos + 1
    /\ upc' = IF upos = Len(summaries) THEN "done" ELSE "restore"
    /\ UNCHANGED <<original_items, returned, original_map, jsonVars, sumVars, selVars, mainVars>>

UrlNext == BuildOriginalMap \/ RestoreUrl

SpecUrl == UrlInit /\ [][UrlNext]_vars

----------------------------------------------------------------------------
(* Specification of the sanitizer applied to one response *)

JsonInit ==
    /\ UrlIdle /\ SumIdle /\ SelIdle /\ MainIdle
    /\ doc \in JsonDocs
    /\ body \in Bodies(doc)
    /\ \E pre \in Prefixes, suf \in Suffixes : text = pre \o body \o suf
    /\ json_text = <<>>
    /\ clean_text = <<>>
    /\ parsed = VErr
    /\ jpc = "extract"

\* json_text = extract_json_from_text(text)
ExtractJsonFromText ==
    /\ jpc = "extract"
    /\ json_text' = ExtractJson(text)
    /\ jpc' = "clean"
    /\ UNCHANGED <<doc, body, text, clean_text, parsed, urlVars, sumVars, selVars, mainVars>>

\* clean_text = clean_json_string(json_text)
CleanJsonString ==
    /\ jpc = "clean"
    /\ clean_text' = CleanJson(json_text)
    /\ jpc' = "loads"
    /\ UNCHANGED <<doc, body, text, json_text, parsed, urlVars, sumVars, selVars, mainVars>>

\* results = json.loads(clean_text)
JsonLoads ==
    /\ jpc = "loads"
    /\ parsed' = Loads(clean_text)
    /\ jpc' = "done"
    /\ UNCHANGED <<doc, body, text, json_text, clean_text, urlVars, sumVars, selVars, mainVars>>

JsonNext == ExtractJsonFromText \/ CleanJsonString \/ JsonLoads

SpecJson == JsonInit /\ [][JsonNext]_vars

----------------------------------------------------------------------------
(* Specification of create_summary_without_ai *)

FallbackInit ==
    /\ UrlIdle /\ JsonIdle /\ SelIdle /\ MainIdle
    /\ items \in UNION {FallbackLists(n) : n \in 0..MaxFallbackItems}
    /\ api_key = "unset" /\ attempts = 0 /\ neterr = FALSE
    /\ status = 0 /\ data = NoResult /\ stext = <<>>
    /\ result = NoResult /\ exc = "none" /\ spc = "fallback"

\* return create_summary_without_ai(items), from position p
ReturnFallback(p) ==
    /\ spc = p
    /\ LET r == CreateSummaryWithoutAi(items)
       IN  /\ result' = r.val
           /\ exc' = r.exc
           /\ spc' = IF r.exc = "none" THEN "returned" ELSE "raised"

\* lines 675-692
CreateSummary ==
    /\ ReturnFallback("fallback")
    /\ UNCHANGED <<items, api_key, attempts, neterr, status, data, stext>>
    /\ UNCHANGED <<urlVars, jsonVars, selVars, mainVars>>

FallbackNext == CreateSummary

SpecFallback == FallbackInit /\ [][FallbackNext]_vars

----------------------------------------------------------------------------
(* Specification of summarize_with_gemini *)

SumInit ==
    /\ UrlIdle /\ JsonIdle /\ SelIdle /\ MainIdle
    /\ items \in UNION {FetchedLists(n) : n \in 0..MaxSelected}
    /\ api_key \in {"unset", "", "key"}
    /\ attempts = 0 /\ neterr = FALSE
    /\ status = 0 /\ data = NoResult /\ stext = <<>>
    /\ result = NoResult /\ exc = "none" /\ spc = "start"

\* an exception e raised inside the try block at position p
Except(p, e) ==
    IF Catches(e) THEN ReturnFallback(p)
    ELSE /\ spc = p
         /\ exc' = e /\ spc' = "raised" /\ result' = result

\* lines 511-515: no API key, no request
CheckApiKey ==
    /\ spc = "start"
    /\ IF api_key \in {"unset", ""} THEN ReturnFallback("start")
       ELSE spc' = "prompt" /\ UNCHANGED <<result, exc>>
    /\ UNCHANGED <<items, api_key, attempts, neterr, status, data, stext>>
    /\ UNCHANGED <<urlVars, jsonVars, selVars, mainVars>>

\* lines 518-576: the prompt, built outside the try block
BuildPrompt ==
    /\ spc = "prompt"
    /\ IF \E i \in 1..Len(items) : ~(PromptKeys \subseteq DOMAIN items[i])
       THEN exc' = "KeyError" /\ spc' = "raised"
       ELSE exc' = exc /\ spc' = "post"
    /\ UNCHANGED <<items, api_key, attempts, neterr, status, data, stext, result>>
    /\ UNCHANGED <<urlVars, jsonVars, selVars, mainVars>>

\* line 585: the request ends in a transport error
PostFails ==
    /\ spc = "post"
    /\ attempts' = attempts + 1
    /\ neterr' = TRUE
    /\ Except("post", "ConnectionError")
    /\ UNCHANGED <<items, api_key, status, data, stext>>
    /\ UNCHANGED <<urlVars, jsonVars, selVars, mainVars>>

\* line 585: the request is answered with status code st
PostResponds(st) ==
    /\ spc = "post"
    /\ attempts' = attempts + 1
    /\ status' = st
    /\ spc' = "posted"
    /\ UNCHANGED <<items, api_key, neterr, data, stext, result, exc>>
    /\ UNCHANGED <<urlVars, jsonVars, selVars, mainVars>>

\* lines 588-595: the second request, after 429 or 500, ends in a transport
\* error
RetryFails ==
    /\ spc = "posted" /\ status \in RetryCodes
    /\ attempts' = attempts + 1
    /\ neterr' = TRUE
    /\ Except("posted", "ConnectionError")
    /\ UNCHANGED <<items, api_key, status, data, stext>>
    /\ UNCHANGED <<urlVars, jsonVars, selVars, mainVars>>

\* lines 588-595: the second request is answered with status code st
RetryResponds(st) ==
    /\ spc = "posted" /\ status \in RetryCodes
    /\ attempts' = attempts + 1
    /\ status' = st
    /\ spc' = "retried"
    /\ UNCHANGED <<items, api_key, neterr, data, stext, result, exc>>
    /\ UNCHANGED <<urlVars, jsonVars, selVars, mainVars>>

\* line 597: response.raise_for_status()
RaiseForStatus ==
    /\ spc = "retried" \/ (spc = "posted" /\ status \notin RetryCodes)
    /\ IF status >= 400 THEN Except(spc, "HTTPError")
       ELSE spc' = "json" /\ UNCHANGED <<result, exc>>
    /\ UNCHANGED <<items, api_key, attempts, neterr, status, data, stext>>
    /\ UNCHANGED <<urlVars, jsonVars, selVars, mainVars>>

\* line 599: data = response.json(), of a body b
ReadJson(b) ==
    /\ spc = "json"
    /\ data' = b
    /\ IF b = VErr THEN Except("json", "ValueError")
       ELSE spc' = "candidates" /\ UNCHANGED <<result, exc>>
    /\ UNCHANGED <<items, api_key, attempts, neterr, status, stext>>
    /\ UNCHANGED <<urlVars, jsonVars, selVars, mainVars>>

\* lines 601-611 and 665-666: the text of the first part, or the fallback
ReadCandidate ==
    /\ spc = "candidates"
    /\ IF HasFirstPart(data)
       THEN /\ stext' = FirstPartText(data)
            /\ spc' = "parse"
            /\ UNCHANGED <<result, exc>>
       ELSE /\ ReturnFallback("candidates")
            /\ stext' = stext
    /\ UNCHANGED <<items, api_key, attempts, neterr, status, data>>
    /\ UNCHANGED <<urlVars, jsonVars, selVars, mainVars>>

\* lines 614-663: sanitize, parse and normalize the text; on a decode error
\* the debug file is written (disk tells whether that succeeds)
ParseText(disk) ==
    /\ spc = "parse"
    /\ LET results == Loads(CleanJson(ExtractJson(stext)))
       IN  IF results = VErr
           THEN IF disk THEN ReturnFallback("parse") ELSE Except("parse", "OSError")
           ELSE IF results.kind = "arr"
           THEN /\ result' = Dict2(KSummaries, results, KGeneratedAt, VStr(Today))
                /\ spc' = "returned"
                /\ exc' = exc
           ELSE IF results.kind = "obj"
           THEN IF ~HasKey(results, KSummaries) THEN ReturnFallback("parse")
                ELSE IF Unsized(GetKey(results, KSummaries))
                THEN Except("parse", "TypeError")
                ELSE result' = results /\ spc' = "returned" /\ exc' = exc
           ELSE ReturnFallback("parse")
    /\ UNCHANGED <<items, api_key, attempts, neterr, status, data, stext>>
    /\ UNCHANGED <<urlVars, jsonVars, selVars, mainVars>>

SumNext ==
    \/ CheckApiKey
    \/ BuildPrompt
    \/ PostFails
    \/ \E st \in StatusCodes : PostResponds(st)
    \/ RetryFails
    \/ \E st \in StatusCodes : RetryResponds(st)
    \/ RaiseForStatus
    \/ \E b \in ResponseBodies : ReadJson(b)
    \/ ReadCandidate
    \/ \E disk \in BOOLEAN : ParseText(disk)

SpecSummarize == SumInit /\ [][SumNext]_vars

----------------------------------------------------------------------------
(* Specification of select_top_items_for_ran_engineers *)

SelectInit ==
    /\ UrlIdle /\ JsonIdle /\ MainIdle
    /\ items = <<>> /\ result = NoResult
    /\ all_items \in UNION {FetchedLists(n) : n \in 0..MaxCollected}
    /\ top_n \in 0..MaxTopN
    /\ selected_items = <<>> /\ keyword = <<>>
    /\ api_key \in {"unset", "", "key"}
    /\ attempts = 0 /\ neterr = FALSE
    /\ status = 0 /\ data = NoResult /\ stext = <<>>
    /\ exc = "none" /\ spc = "start"

\* return all_items[:top_n], from position p
ReturnFirst(p) ==
    /\ spc = p
    /\ selected_items' = Take(all_items, top_n)
    /\ exc' = exc
    /\ spc' = "returned"

\* an exception e raised inside the try block at position p
SelectExcept(p, e) ==
    IF SelectorCatches(e) THEN ReturnFirst(p)
    ELSE /\ spc = p
         /\ exc' = e /\ spc' = "raised" /\ selected_items' = selected_items

\* lines 362-366: no API key, no request
SelectCheckApiKey ==
    /\ spc = "start"
    /\ IF api_key \in {"unset", ""} THEN ReturnFirst("start")
       ELSE spc' = "prompt" /\ UNCHANGED <<selected_items, exc>>
    /\ UNCHANGED <<items, api_key, attempts, neterr, status, data, stext, result>>
    /\ UNCHANGED <<all_items, top_n, keyword, urlVars, jsonVars, mainVars>>

\* lines 368-413: the prompt and the payload, built outside the try block
SelectBuildPrompt ==
    /\ spc = "prompt"
    /\ IF \E i \in 1..Len(all_items) : ~(SelectionKeys \subseteq DOMAIN all_items[i])
       THEN exc' = "KeyError" /\ spc' = "raised"
       ELSE exc' = exc /\ spc' = "post"
    /\ UNCHANGED <<items, api_key, attempts, neterr, status, data, stext, result>>
    /\ UNCHANGED <<all_items, top_n, selected_items, keyword, urlVars, jsonVars, mainVars>>

\* line 422: the request ends in a transport error
SelectPostFails ==
    /\ spc = "post"
    /\ attempts' = attempts + 1
    /\ neterr' = TRUE
    /\ SelectExcept("post", "ConnectionError")
    /\ UNCHANGED <<items, api_key, status, data, stext, result>>
    /\ UNCHANGED <<all_items, top_n, keyword, urlVars, jsonVars, mainVars>>

\* line 422: the request is answered with status code st
SelectPostResponds(st) ==
    /\ spc = "post"
    /\ attempts' = attempts + 1
    /\ status' = st
    /\ spc' = "posted"
    /\ UNCHANGED <<items, api_key, neterr, data, stext, result, exc>>
    /\ UNCHANGED <<selVars, urlVars, jsonVars, mainVars>>

\* lines 425-432: the second request, after 429 or 500, ends in a transport
\* error
SelectRetryFails ==
    /\ spc = "posted" /\ status \in RetryCodes
    /\ attempts' = attempts + 1
    /\ neterr' = TRUE
    /\ SelectExcept("posted", "ConnectionError")
    /\ UNCHANGED <<items, api_key, status, data, stext, result>>
    /\ UNCHANGED <<all_items, top_n, keyword, urlVars, jsonVars, mainVars>>

\* lines 425-432: the second request is answered with status code st
SelectRetryResponds(st) ==
    /\ spc = "posted" /\ status \in RetryCodes
    /\ attempts' = attempts + 1
    /\ status' = st
    /\ spc' = "retried"
    /\ UNCHANGED <<items, api_key, neterr, data, stext, result, exc>>
    /\ UNCHANGED <<selVars, urlVars, jsonVars, mainVars>>

\* line 434: response.raise_for_status()
SelectRaiseForStatus ==
    /\ spc = "retried" \/ (spc = "posted" /\ status \notin RetryCodes)
    /\ IF status >= 400 THEN SelectExcept(spc, "HTTPError")
       ELSE spc' = "json" /\ UNCHANGED <<selected_items, exc>>
    /\ UNCHANGED <<items, api_key, attempts, neterr, status, data, stext, result>>
    /\ UNCHANGED <<all_items, top_n, keyword, urlVars, jsonVars, mainVars>>

\* line 436: data = response.json(), of a body b
SelectReadJson(b) ==
    /\ spc = "json"
    /\ data' = b
    /\ IF b = VErr THEN SelectExcept("json", "ValueError")
       ELSE spc' = "candidates" /\ UNCHANGED <<selected_items, exc>>
    /\ UNCHANGED <<items, api_key, attempts, neterr, status, stext, result>>
    /\ UNCHANGED <<all_items, top_n, keyword, urlVars, jsonVars, mainVars>>

\* lines 438-447 and 494-498: the text of the first part, or the first items
SelectReadCandidate ==
    /\ spc = "candidates"
    /\ IF HasFirstPart(data)
       THEN /\ stext' = Strip(FirstPartText(data))
            /\ spc' = "parse"
            /\ UNCHANGED <<selected_items, exc>>
       ELSE /\ ReturnFirst("candidates")
            /\ stext' = stext
    /\ UNCHANGED <<items, api_key, attempts, neterr, status, data, result>>
    /\ UNCHANGED <<all_items, top_n, keyword, urlVars, jsonVars, mainVars>>

\* lines 450-493: sanitize and parse the text, pick the items; on a decode
\* error the debug file is written (disk tells whether that succeeds)
SelectParseText(disk) ==
    /\ spc = "parse"
    /\ LET selected_indices == Loads(CleanJson(ExtractJson(stext)))
       IN  IF selected_indices = VErr
           THEN IF disk THEN ReturnFirst("parse") ELSE SelectExcept("parse", "OSError")
           ELSE IF selected_indices.kind # "arr" THEN ReturnFirst("parse")
           ELSE /\ selected_items' =
                      TopOrFirst(all_items, PickItems(all_items, selected_indices.val), top_n)
                /\ spc' = "returned"
                /\ exc' = exc
    /\ UNCHANGED <<items, api_key, attempts, neterr, status, data, stext, result>>
    /\ UNCHANGED <<all_items, top_n, keyword, urlVars, jsonVars, mainVars>>

SelectNext ==
    \/ SelectCheckApiKey
    \/ SelectBuildPrompt
    \/ SelectPostFails
    \/ \E st \in StatusCodes : SelectPostResponds(st)
    \/ SelectRetryFails
    \/ \E st \in StatusCodes : SelectRetryResponds(st)
    \/ SelectRaiseForStatus
    \/ \E b \in SelectorBodies : SelectReadJson(b)
    \/ SelectReadCandidate
    \/ \E disk \in BOOLEAN : SelectParseText(disk)

SpecSelect == SelectInit /\ [][SelectNext]_vars

----------------------------------------------------------------------------
(* Specification of extract_hot_keywords *)

KeywordInit ==
    /\ UrlIdle /\ JsonIdle /\ MainIdle
    /\ items = <<>> /\ result = NoResult
    /\ all_items = <<>> /\ top_n = 0 /\ selected_items = <<>>
    /\ keyword = <<>>
    /\ api_key \in {"unset", "", "key"}
    /\ attempts = 0 /\ neterr = FALSE
    /\ status = 0 /\ data = NoResult /\ stext = <<>>
    /\ exc = "none" /\ spc = "start"

\* return "6G wireless communications", from position p
ReturnDefault(p) ==
    /\ spc = p
    /\ keyword' = DefaultKeyword
    /\ exc' = exc
    /\ spc' = "returned"

\* an exception e raised inside the try block at position p
KeywordExcept(p, e) ==
    IF KeywordCatches(e) THEN ReturnDefault(p)
    ELSE /\ spc = p
         /\ exc' = e /\ spc' = "raised" /\ keyword' = keyword

\* lines 59-63: no API key, no request
KeywordCheckApiKey ==
    /\ spc = "start"
    /\ IF api_key \in {"unset", ""} THEN ReturnDefault("start")
       ELSE spc' = "post" /\ UNCHANGED <<keyword, exc>>
    /\ UNCHANGED <<items, api_key, attempts, neterr, status, data, stext, result>>
    /\ UNCHANGED <<all_items, top_n, selected_items, urlVars, jsonVars, mainVars>>

\* line 104: the request ends in a transport error
KeywordPostFails ==
    /\ spc = "post"
    /\ attempts' = attempts + 1
    /\ neterr' = TRUE
    /\ KeywordExcept("post", "ConnectionError")
    /\ UNCHANGED <<items, api_key, status, data, stext, result>>
    /\ UNCHANGED <<all_items, top_n, selected_items, urlVars, jsonVars, mainVars>>

\* line 104: the request is answered with status code st
KeywordPostResponds(st) ==
    /\ spc = "post"
    /\ attempts' = attempts + 1
    /\ status' = st
    /\ spc' = "posted"
    /\ UNCHANGED <<items, api_key, neterr, data, stext, result, exc>>
    /\ UNCHANGED <<selVars, urlVars, jsonVars, mainVars>>

\* lines 107-111: the second request ends in a transport error
KeywordRetryFails ==
    /\ spc = "posted" /\ status \in KeywordRetryCodes
    /\ attempts' = attempts + 1
    /\ neterr' = TRUE
    /\ KeywordExcept("posted", "ConnectionError")
    /\ UNCHANGED <<items, api_key, status, data, stext, result>>
    /\ UNCHANGED <<all_items, top_n, selected_items, urlVars, jsonVars, mainVars>>

\* lines 107-111: the second request is answered with status code st
KeywordRetryResponds(st) ==
    /\ spc = "posted" /\ status \in KeywordRetryCodes
    /\ attempts' = attempts + 1
    /\ status' = st
    /\ spc' = "retried"
    /\ UNCHANGED <<items, api_key, neterr, data, stext, result, exc>>
    /\ UNCHANGED <<selVars, urlVars, jsonVars, mainVars>>

\* line 113: response.raise_for_status()
KeywordRaiseForStatus ==
    /\ spc = "retried" \/ (spc = "posted" /\ status \notin KeywordRetryCodes)
    /\ IF status >= 400 THEN KeywordExcept(spc, "HTTPError")
       ELSE spc' = "json" /\ UNCHANGED <<keyword, exc>>
    /\ UNCHANGED <<items, api_key, attempts, neterr, status, data, stext, result>>
    /\ UNCHANGED <<all_items, top_n, selected_items, urlVars, jsonVars, mainVars>>

\* lines 115-124: data = response.json(), of a body b, and the keys
KeywordReadJson(b) ==
    /\ spc = "json"
    /\ data' = b
    /\ IF b = VErr THEN KeywordExcept("json", "ValueError")
       ELSE IF KeysFail(b) THEN KeywordExcept("json", "AttributeError")
       ELSE spc' = "candidates" /\ UNCHANGED <<keyword, exc>>
    /\ UNCHANGED <<items, api_key, attempts, neterr, status, stext, result>>
    /\ UNCHANGED <<all_items, top_n, selected_items, urlVars, jsonVars, mainVars>>

\* lines 120-149: the cleaned text of the first part if it is not empty,
\* else the default keyword
KeywordReadCandidate ==
    /\ spc = "candidates"
    /\ IF HasFirstPart(data) /\ CleanKeyword(FirstPartText(data)) # <<>>
       THEN /\ stext' = FirstPartText(data)
            /\ keyword' = CleanKeyword(FirstPartText(data))
            /\ spc' = "returned"
            /\ exc' = exc
       ELSE /\ ReturnDefault("candidates")
            /\ stext' = IF HasFirstPart(data) THEN FirstPartText(data) ELSE stext
    /\ UNCHANGED <<items, api_key, attempts, neterr, status, data, result>>
    /\ UNCHANGED <<all_items, top_n, selected_items, urlVars, jsonVars, mainVars>>

KeywordNext ==
    \/ KeywordCheckApiKey
    \/ KeywordPostFails
    \/ \E st \in StatusCodes : KeywordPostResponds(st)
    \/ KeywordRetryFails
    \/ \E st \in StatusCodes : KeywordRetryResponds(st)
    \/ KeywordRaiseForStatus
    \/ \E b \in KeywordBodies : KeywordReadJson(b)
    \/ KeywordReadCandidate

SpecKeywords == KeywordInit /\ [][KeywordNext]_vars

----------------------------------------------------------------------------
(* Specification of the entry points: main of fetch_6g_professional.py,    *)
(* and main of fetch_and_email_gemini.py and fetch_and_email.py            *)

\* the keywords extract_hot_keywords returns with an API key
MainKeywords == { DefaultKeyword, <<"6", "G", " ", "R", "A", "N">> }

MainInit ==
    /\ UrlIdle /\ JsonIdle /\ SumIdle /\ SelIdle
    /\ script \in Scripts
    /\ env \in Environments
    /\ mpc = (IF script = "fetch_6g_professional" THEN "keyword" ELSE "fetch_news")
    /\ calls = <<>> /\ failed = {}
    /\ hot_keyword = <<>>
    /\ journals = <<>> /\ papers_arxiv = <<>> /\ news = <<>>
    /\ summary_data = NoResult /\ message = <<>>
    /\ sent = {} /\ main_exc = "none"

\* lines 1932-1936: an exception e leaves main
MainRaise(e) == main_exc' = e /\ mpc' = "raised"

\* line 1851: hot_keyword = extract_hot_keywords()
ExtractHotKeywords(kw) ==
    /\ script = "fetch_6g_professional" /\ mpc = "keyword"
    /\ LlmKey \notin env => kw = DefaultKeyword
    /\ calls' = Append(calls, "extract_hot_keywords")
    /\ hot_keyword' = kw
    /\ mpc' = "ieee"
    /\ UNCHANGED <<script, env, failed, journals, papers_arxiv, news, summary_data,
                   message, sent, main_exc>>
    /\ UNCHANGED <<urlVars, jsonVars, sumVars, selVars>>

\* lines 1862-1863: journals = search_ieee(hot_keyword), on the response r
MainSearchIeee(r) ==
    /\ mpc = "ieee"
    /\ calls' = Append(calls, "search_ieee")
    /\ journals' = SearchIeee(IeeeKey \in env, r)
    /\ all_items' = all_items \o journals'
    /\ failed' = IF IeeeKey \notin env \/ IeeeRaises(r) THEN failed \cup {"search_ieee"}
                 ELSE failed
    /\ mpc' = "arxiv"
    /\ UNCHANGED <<script, env, hot_keyword, papers_arxiv, news, summary_data,
                   message, sent, main_exc>>
    /\ UNCHANGED <<urlVars, jsonVars, sumVars, top_n, selected_items, keyword>>

\* lines 1866-1867: papers_arxiv = search_arxiv(hot_keyword), on the response r
MainSearchArxiv(r) ==
    /\ mpc = "arxiv"
    /\ calls' = Append(calls, "search_arxiv")
    /\ papers_arxiv' = SearchArxiv(r)
    /\ all_items' = all_items \o papers_arxiv'
    /\ failed' = IF RequestFailed(r) \/ ArxivRaises(r) THEN failed \cup {"search_arxiv"}
                 ELSE failed
    /\ mpc' = "news"
    /\ UNCHANGED <<script, env, hot_keyword, journals, news, summary_data,
                   message, sent, main_exc>>
    /\ UNCHANGED <<urlVars, jsonVars, sumVars, top_n, selected_items, keyword>>

\* lines 1874-1875: news = search_google_news(hot_keyword), on the response r
MainSearchGoogleNews(r, head) ==
    /\ mpc = "news"
    /\ calls' = Append(calls, "search_google_news")
    /\ news' = SearchGoogleNews(r, head)
    /\ all_items' = all_items \o news'
    /\ failed' = IF RequestFailed(r) THEN failed \cup {"search_google_news"} ELSE failed
    /\ mpc' = "check"
    /\ UNCHANGED <<script, env, hot_keyword, journals, papers_arxiv, summary_data,
                   message, sent, main_exc>>
    /\ UNCHANGED <<urlVars, jsonVars, sumVars, top_n, selected_items, keyword>>

\* lines 1882-1884: nothing collected, main returns
CheckItems ==
    /\ mpc = "check"
    /\ mpc' = IF NoItems(all_items) THEN "returned" ELSE "select"
    /\ UNCHANGED <<script, env, calls, failed, hot_keyword, journals, papers_arxiv, news,
                   summary_data, message, sent, main_exc>>
    /\ UNCHANGED <<urlVars, jsonVars, sumVars, selVars>>

\* line 1890: selected_items = select_top_items_for_ran_engineers(all_items,
\* top_n=10): the first ten items, or (llm) the items the LLM picked, here
\* the first item ten times
MainSelect(llm) ==
    /\ mpc = "select"
    /\ llm => LlmKey \in env
    /\ calls' = Append(calls, "select_top_items_for_ran_engineers")
    /\ selected_items' = IF llm /\ all_items # <<>> THEN Rep(all_items[1], MainTopN)
                         ELSE Take(all_items, MainTopN)
    /\ mpc' = "summarize"
    /\ UNCHANGED <<script, env, failed, hot_keyword, journals, papers_arxiv, news, summary_data,
                   message, sent, main_exc>>
    /\ UNCHANGED <<urlVars, jsonVars, sumVars, all_items, top_n, keyword>>

\* line 1906: summary_data = summarize_with_gemini(selected_items): a
\* bundle b from an LLM text, or (b = NoResult) the bundle of
\* create_summary_without_ai
MainSummarize(b) ==
    /\ mpc = "summarize"
    /\ b # NoResult => LlmKey \in env
    /\ calls' = Append(calls, "summarize_with_gemini")
    /\ summary_data' = IF b = NoResult THEN CreateSummaryWithoutAi(selected_items).val ELSE b
    /\ mpc' = "save"
    /\ UNCHANGED <<script, env, failed, hot_keyword, journals, papers_arxiv, news,
                   message, sent, main_exc>>
    /\ UNCHANGED <<urlVars, jsonVars, sumVars, selVars>>

\* lines 1912 and 1782-1833: save_to_file(summary_data); disk tells whether
\* the directory and the file can be written
SaveToFile(disk) ==
    /\ script = "fetch_6g_professional" /\ mpc = "save"
    /\ calls' = Append(calls, "save_to_file")
    /\ IF ~disk THEN MainRaise("OSError") /\ sent' = sent
       ELSE IF RenderRaises(summary_data) THEN MainRaise("KeyError") /\ sent' = sent
       ELSE /\ sent' = sent \cup {"file"}
            /\ mpc' = "email"
            /\ main_exc' = main_exc
    /\ UNCHANGED <<script, env, failed, hot_keyword, journals, papers_arxiv, news,
                   summary_data, message>>
    /\ UNCHANGED <<urlVars, jsonVars, sumVars, selVars>>

\* lines 1915 and 1574-1615: send_email(summary_data, hot_keyword); smtp
\* tells whether the login and the transfer succeed
SendEmail(smtp) ==
    /\ script = "fetch_6g_professional" /\ mpc = "email"
    /\ calls' = Append(calls, "send_email")
    /\ IF ~(EmailCredentials \subseteq env)
       THEN mpc' = "chat" /\ UNCHANGED <<sent, main_exc>>
       ELSE IF RenderRaises(summary_data) THEN MainRaise("KeyError") /\ sent' = sent
       ELSE /\ sent' = IF smtp THEN sent \cup {"email"} ELSE sent
            /\ mpc' = "chat"
            /\ main_exc' = main_exc
    /\ UNCHANGED <<script, env, failed, hot_keyword, journals, papers_arxiv, news,
                   summary_data, message>>
    /\ UNCHANGED <<urlVars, jsonVars, sumVars, selVars>>

\* lines 1918 and 1627-1778: send_visual_telegram(summary_data, hot_keyword);
\* post tells whether the request succeeds
SendVisualTelegram(post) ==
    /\ mpc = "chat"
    /\ calls' = Append(calls, "send_visual_telegram")
    /\ IF ~(ChatCredentials \subseteq env)
       THEN mpc' = "report" /\ UNCHANGED <<message, sent, main_exc>>
       ELSE LET assembled == TelegramMessage(summary_data, hot_keyword)
            IN  IF assembled.exc # "none"
                THEN MainRaise(assembled.exc) /\ UNCHANGED <<message, sent>>
                ELSE /\ message' = assembled.val
                     /\ sent' = IF post THEN sent \cup {"chat"} ELSE sent
                     /\ mpc' = "report"
                     /\ main_exc' = main_exc
    /\ UNCHANGED <<script, env, failed, hot_keyword, journals, papers_arxiv, news, summary_data>>
    /\ UNCHANGED <<urlVars, jsonVars, sumVars, selVars>>

\* lines 1920-1930: the closing report
Report ==
    /\ mpc = "report"
    /\ IF ReportRaises(summary_data) THEN MainRaise("TypeError")
       ELSE mpc' = "done" /\ main_exc' = main_exc
    /\ UNCHANGED <<script, env, calls, failed, hot_keyword, journals, papers_arxiv, news,
                   summary_data, message, sent>>
    /\ UNCHANGED <<urlVars, jsonVars, sumVars, selVars>>

\* fetch_and_email_gemini.py line 467 and fetch_and_email.py line 308: the
\* news data nd, or (ok false) an exception of the LLM client or of parsing
\* its answer; fetch_and_email.py raises ValueError without its API key
FetchNews(nd, ok) ==
    /\ script # "fetch_6g_professional" /\ mpc = "fetch_news"
    /\ calls' = Append(calls, "fetch_6g_news")
    /\ IF script = "fetch_and_email" /\ AnthropicKey \notin env
       THEN MainRaise("ValueError") /\ summary_data' = summary_data
       ELSE IF ~ok /\ (script = "fetch_and_email" \/ LlmKey \in env)
       THEN MainRaise("APIError") /\ summary_data' = summary_data
       ELSE /\ script = "fetch_and_email_gemini" /\ LlmKey \notin env => ~NewsRenderRaises(nd)
            /\ summary_data' = nd
            /\ mpc' = "save"
            /\ main_exc' = main_exc
    /\ UNCHANGED <<script, env, failed, hot_keyword, journals, papers_arxiv, news, message, sent>>
    /\ UNCHANGED <<urlVars, jsonVars, sumVars, selVars>>

\* fetch_and_email_gemini.py lines 433-455 and fetch_and_email.py lines
\* 274-296: save_to_file(news_data)
NewsSaveToFile(disk) ==
    /\ script # "fetch_6g_professional" /\ mpc = "save"
    /\ calls' = Append(calls, "save_to_file")
    /\ IF ~disk THEN MainRaise("OSError") /\ sent' = sent
       ELSE IF NewsRenderRaises(summary_data) THEN MainRaise("KeyError") /\ sent' = sent
       ELSE /\ sent' = sent \cup {"file"}
            /\ mpc' = "email"
            /\ main_exc' = main_exc
    /\ UNCHANGED <<script, env, failed, hot_keyword, journals, papers_arxiv, news,
                   summary_data, message>>
    /\ UNCHANGED <<urlVars, jsonVars, sumVars, selVars>>

\* fetch_and_email_gemini.py lines 379-431 and fetch_and_email.py lines
\* 220-272: send_email(news_data)
NewsSendEmail(smtp) ==
    /\ script # "fetch_6g_professional" /\ mpc = "email"
    /\ calls' = Append(calls, "send_email")
    /\ IF ~(EmailCredentials \subseteq env) /\ MissingEmailCredentialRaises(script)
       THEN MainRaise("ValueError") /\ sent' = sent
       ELSE IF NewsRenderRaises(summary_data) THEN MainRaise("KeyError") /\ sent' = sent
       ELSE IF ~smtp THEN MainRaise("SMTPException") /\ sent' = sent
       ELSE /\ sent' = sent \cup {"email"}
            /\ mpc' = "done"
            /\ main_exc' = main_exc
    /\ UNCHANGED <<script, env, failed, hot_keyword, journals, papers_arxiv, news,
                   summary_data, message>>
    /\ UNCHANGED <<urlVars, jsonVars, sumVars, selVars>>

MainNext ==
    \/ \E kw \in MainKeywords : ExtractHotKeywords(kw)
    \/ \E r \in Responses(IeeeBodies, VErr) : MainSearchIeee(r)
    \/ \E r \in Responses(ArxivBodies, <<>>) : MainSearchArxiv(r)
    \/ \E r \in Responses(NewsBodies, <<>>), head \in BOOLEAN : MainSearchGoogleNews(r, head)
    \/ CheckItems
    \/ \E llm \in BOOLEAN : MainSelect(llm)
    \/ \E b \in {NoResult} \cup LlmBundles : MainSummarize(b)
    \/ \E disk \in BOOLEAN : SaveToFile(disk)
    \/ \E smtp \in BOOLEAN : SendEmail(smtp)
    \/ \E post \in BOOLEAN : SendVisualTelegram(post)
    \/ Report
    \/ \E nd \in NewsData, ok \in BOOLEAN : FetchNews(nd, ok)
    \/ \E disk \in BOOLEAN : NewsSaveToFile(disk)
    \/ \E smtp \in BOOLEAN : NewsSendEmail(smtp)

SpecMain == MainInit /\ [][MainNext]_vars

----------------------------------------------------------------------------
(* Specification of send_visual_telegram *)

\* the numbers of summaries of one type in a bundle
ChatCounts == {0, 1, 11}

\* a summary of the given type with a title of 100 characters, a summary of
\* 200 characters and a url of 40 characters
LongSummary(type) ==
    VObj(<<[key |-> KTitle, val |-> VStr(Rep("T", TitleLimit))],
           [key |-> KSummary, val |-> VStr(Rep("s", LongSummaryLimit))],
           [key |-> KMessage, val |-> VStr(<<"m">>)],
           [key |-> KUrl, val |-> VStr(Rep("u", 40))],
           [key |-> KType, val |-> VStr(type)]>>)

\* the bundles of nj Journal, np Paper and nn News summaries
ChatBundles ==
    { Dict2(KSummaries,
            VArr(Rep(LongSummary(TJournal), nj) \o Rep(LongSummary(TPaper), np)
                     \o Rep(LongSummary(TNews), nn)),
            KGeneratedAt, VStr(Today)) : nj \in ChatCounts, np \in ChatCounts, nn \in ChatCounts }

\* the types an LLM summary carries: the three known ones, another one, and
\* none (<<>>: the summary has no type)
CarriedTypes == {TJournal, TPaper, TNews, <<"R", "e", "p", "o", "r", "t">>, <<>>}

\* the k-th summary of a bundle, of the given type
TypedSummary(k, type) ==
    VObj(<<[key |-> KTitle, val |-> VStr(<<"T", Digit[k]>>)],
           [key |-> KSummary, val |-> VStr(<<"s">>)],
           [key |-> KMessage, val |-> VStr(<<"m">>)],
           [key |-> KUrl, val |-> VStr(<<"u", "/", Digit[k]>>)]>>
         \o (IF type = <<>> THEN <<>> ELSE <<[key |-> KType, val |-> VStr(type)]>>))

\* the bundles of one and of three short summaries of any types
MixedBundles ==
    { Dict2(KSummaries, VArr([k \in 1..Len(types) |-> TypedSummary(k, types[k])]),
            KGeneratedAt, VStr(Today)) :
        types \in UNION { [1..n -> CarriedTypes] : n \in {1, 3} } }

\* send_visual_telegram(summary_data, hot_keyword) is about to be called
TelegramInit ==
    /\ UrlIdle /\ JsonIdle /\ SumIdle /\ SelIdle
    /\ script = "fetch_6g_professional"
    /\ env \in {Credentials, Credentials \ {"TELEGRAM_CHAT_ID"}}
    /\ mpc = "chat"
    /\ calls = <<>> /\ failed = {}
    /\ hot_keyword \in MainKeywords
    /\ journals = <<>> /\ papers_arxiv = <<>> /\ news = <<>>
    /\ summary_data \in ChatBundles \cup MixedBundles
    /\ message = <<>>
    /\ sent = {} /\ main_exc = "none"

TelegramNext == \E post \in BOOLEAN : SendVisualTelegram(post)

SpecTelegram == TelegramInit /\ [][TelegramNext]_vars

----------------------------------------------------------------------------
(* Claims about _preserve_original_urls *)

\* the summaries the second loop has already visited
Visited == IF upc \in {"restore", "done"} THEN 1..(upos - 1) ELSE {}

\* the normalized titles of the source items, by position
ItemKeys == [j \in 1..Len(original_items) |-> NormalizeTitle(original_items[j].title)]

\* the normalized titles of the summaries as the LLM returned them
SummaryKeys == [k \in 1..Len(returned) |-> NormalizeTitle(GetTitle(returned[k]))]

\* the source items, of normalized titles ik, whose title equals key
ExactItems(ik, key) == {j \in DOMAIN ik : ik[j] = key}

\* the source items whose title contains key or is contained in it
SubstringItems(ik, key) ==
    {j \in DOMAIN ik : Contains(ik[j], key) \/ Contains(key, ik[j])}

\* the source items the substring fallback accepts for key
FallbackItems(ik, key) ==
    IF Len(key) > MinFuzzyLen THEN SubstringItems(ik, key) ELSE {}

Last(S) == CHOOSE k \in S : \A m \in S : k >= m

\* C1 as stated: a visited summary whose normalized title equals the
\* normalized title of a source item carries that source item's url
C1_ExactMatchEveryItem ==
    LET ik == ItemKeys
        sk == SummaryKeys
    IN  \A k \in Visited : \A j \in ExactItems(ik, sk[k]) :
            summaries[k].url = original_items[j].url

\* C1 amended: a visited summary whose normalized title equals the normalized
\* title of some source item carries the url of the last source item with
\* that normalized title, whatever url the LLM returned
C1_ExactMatchLastItem ==
    LET ik == ItemKeys
        sk == SummaryKeys
    IN  \A k \in Visited :
            LET ex == ExactItems(ik, sk[k])
            IN  ex # {} => summaries[k].url = original_items[Last(ex)].url

\* C1 witness: a summary returned with the bare domain, whose raw title
\* differs from the source title but normalizes to it, has been restored
C1_Witness ==
    LET ik == ItemKeys
        sk == SummaryKeys
    IN  \E k \in Visited :
            LET ex == ExactItems(ik, sk[k])
            IN  /\ ex # {}
                /\ "title" \in DOMAIN returned[k]
                /\ returned[k].title # original_items[Last(ex)].title
                /\ returned[k].url = BareDomain
                /\ summaries[k].url = original_items[Last(ex)].url

\* C2: a visited summary without exact match whose normalized title has at
\* most MinFuzzyLen characters keeps the url the LLM returned, even when its
\* title is contained in a source title or contains one
C2_ShortTitleKeepsUrl ==
    LET ik == ItemKeys
        sk == SummaryKeys
    IN  \A k \in Visited :
            (ExactItems(ik, sk[k]) = {} /\ Len(sk[k]) <= MinFuzzyLen) =>
                summaries[k].url = returned[k].url

\* C2 witness: a summary exactly MinFuzzyLen long, contained in a source
\* title, without exact match, has been visited and kept its url
C2_Witness ==
    LET ik == ItemKeys
        sk == SummaryKeys
    IN  \E k \in Visited :
            /\ ExactItems(ik, sk[k]) = {}
            /\ Len(sk[k]) = MinFuzzyLen
            /\ \E j \in DOMAIN ik : Len(ik[j]) > Len(sk[k]) /\ Contains(ik[j], sk[k])
            /\ summaries[k].url = BareDomain

\* C3: a visited summary whose normalized title neither equals, contains nor
\* is contained in any source title is left as the LLM returned it
C3_NoMatchKeepsUrl ==
    LET ik == ItemKeys
        sk == SummaryKeys
    IN  \A k \in Visited :
            (ExactItems(ik, sk[k]) = {} /\ SubstringItems(ik, sk[k]) = {}) =>
                summaries[k] = returned[k]

\* C3 witness: a long summary title unrelated to every title of a non-empty
\* source list has been visited and kept the bare domain
C3_Witness ==
    LET ik == ItemKeys
        sk == SummaryKeys
    IN  \E k \in Visited :
            /\ original_items # <<>>
            /\ ExactItems(ik, sk[k]) = {} /\ SubstringItems(ik, sk[k]) = {}
            /\ Len(sk[k]) > MinFuzzyLen
            /\ summaries[k].url = BareDomain

\* C4 as stated: when several source items share the normalized title of a
\* visited summary, the summary carries the url of the first of them
C4_DuplicateFirstWins ==
    LET ik == ItemKeys
        sk == SummaryKeys
    IN  \A k \in Visited :
            LET ex == ExactItems(ik, sk[k])
            IN  Cardinality(ex) >= 2 =>
                    summaries[k].url = original_items[First(ex)].url

\* C4 amended: when several source items share the normalized title of a
\* visited summary, the summary carries the url of the last of them, and not
\* that of any earlier one
C4_DuplicateLastWins ==
    LET ik == ItemKeys
        sk == SummaryKeys
    IN  \A k \in Visited :
            LET ex == ExactItems(ik, sk[k])
            IN  \A i, j \in ex :
                    (i < j /\ \A m \in ex : m <= j) =>
                        /\ summaries[k].url = original_items[j].url
                        /\ summaries[k].url # original_items[i].url

\* C4 witness: two source items share the title of a visited summary
C4_Witness ==
    LET ik == ItemKeys
        sk == SummaryKeys
    IN  \E k \in Visited :
            LET ex == ExactItems(ik, sk[k])
            IN  /\ Cardinality(ex) >= 2
                /\ summaries[k].url = ArticleUrl(Last(ex))

----------------------------------------------------------------------------
(* Claims about the sanitizer *)

Extracted == jpc \in {"clean", "loads", "done"}
Cleaned == jpc \in {"loads", "done"}

\* C6: for every JSON array or object written without artifacts and put in
\* code fences and commentary, the extracted text parses to the same value
\* as the document
C6_FencedJsonRoundTrip ==
    (Extracted /\ body = doc /\ Contains(text, Fence)
        /\ Loads(doc).kind \in {"arr", "obj"}) =>
        Loads(json_text) = Loads(doc)

\* the number of doubled backslashes of a text, paired from left to right
RECURSIVE DoubledFrom(_, _)
DoubledFrom(s, i) ==
    IF i >= Len(s) THEN 0
    ELSE IF s[i] = BackSlash /\ s[i + 1] = BackSlash THEN 1 + DoubledFrom(s, i + 2)
    ELSE DoubledFrom(s, i + 1)

\* C7: clean_json_string turns a document with a stray backslash before an
\* ordinary character back into JSON of the document's value, keeps every
\* doubled backslash, and leaves JSON whose strings hold escaped quotes
\* parsing to the same value
C7_SanitizerKeepsEscapes ==
    Cleaned =>
        /\ (body # doc /\ json_text = body) => Loads(clean_text) = Loads(doc)
        /\ DoubledFrom(clean_text, 1) = DoubledFrom(json_text, 1)
        /\ (body = doc /\ Loads(json_text) # VErr) => Loads(clean_text) = Loads(json_text)

\* C8: the extracted text is the span from the first opening bracket or brace
\* of the fence-stripped text, whichever comes first, to the last closer of
\* its kind; a text without bracket and brace is returned trimmed
C8_FirstOpenerDecides ==
    Extracted =>
        LET t == StripFences(text)
            opens == Positions(t, "[") \cup Positions(t, "{")
        IN  IF opens = {} THEN json_text = Strip(t)
            ELSE LET a == Min(opens)
                     closers == Positions(t, IF t[a] = "[" THEN "]" ELSE "}")
                 IN  (closers # {} /\ Max(closers) > a) =>
                         json_text = SubSeq(t, a, Max(closers))

----------------------------------------------------------------------------
(* Claims about create_summary_without_ai and summarize_with_gemini *)

Returned == spc \in {"returned", "raised"}

\* C9: create_summary_without_ai raises for no list of source items and
\* returns one summary per item, in order, with the item's title, url and
\* type and, as summary, the first SummaryLimit characters of the description
\* (the placeholder when the description is missing or empty)
C9_FallbackNeverRaises ==
    Returned =>
        /\ exc = "none" /\ spc = "returned"
        /\ HasKey(result, KSummaries) /\ HasKey(result, KGeneratedAt)
        /\ LET sums == GetKey(result, KSummaries).val
           IN  /\ Len(sums) = Len(items)
               /\ \A i \in 1..Len(items) :
                     LET sm == GetKey(sums[i], KSummary).str
                     IN  /\ GetKey(sums[i], KTitle).str = items[i].title
                         /\ GetKey(sums[i], KUrl).str = items[i].url
                         /\ GetKey(sums[i], KType).str = items[i].type
                         /\ IF "description" \in DOMAIN items[i]
                                /\ Len(items[i].description) > 0
                            THEN /\ Len(sm) <= SummaryLimit
                                 /\ Len(sm) = SummaryLimit
                                        \/ Len(sm) = Len(items[i].description)
                                 /\ \A k \in 1..Len(sm) : sm[k] = items[i].description[k]
                            ELSE sm = Placeholder

\* C9 witness: the fallback has returned for a list that holds an item
\* without description and an item whose description is over the limit
C9_Witness ==
    /\ spc = "returned" /\ HasKey(result, KSummaries)
    /\ \E i, j \in 1..Len(items) :
          /\ "description" \notin DOMAIN items[i]
          /\ GetKey(GetKey(result, KSummaries).val[i], KSummary).str = Placeholder
          /\ "description" \in DOMAIN items[j]
          /\ Len(items[j].description) > SummaryLimit
          /\ Len(GetKey(GetKey(result, KSummaries).val[j], KSummary).str) = SummaryLimit

\* the failures of the LLM step, read from what the environment delivered
LlmStepFailed ==
    \/ api_key \in {"unset", ""}
    \/ neterr
    \/ status >= 400
    \/ data = VErr
    \/ ~HasFirstPart(data)
    \/ LET r == Loads(CleanJson(ExtractJson(stext)))
       IN  \/ r = VErr
           \/ r.kind \in {"str", "num", "lit"}
           \/ r.kind = "obj" /\ ~HasKey(r, KSummaries)

\* C10: summarize_with_gemini never raises, and after every failure of the
\* LLM step (no key, transport or HTTP error also of the retry, no
\* candidates, content or parts, unparseable text, a value that is neither
\* list nor object, an object without summaries) it returns the bundle of
\* create_summary_without_ai
C10_SummarizeFallsBack ==
    Returned =>
        /\ exc = "none" /\ spc = "returned"
        /\ LlmStepFailed => result = CreateSummaryWithoutAi(items).val

\* C10 witness: the retry after 429 or 500 failed as well and the fallback
\* bundle of a non-empty list was returned
C10_Witness ==
    /\ spc = "returned" /\ attempts = 2 /\ status >= 400
    /\ items # <<>>
    /\ result = CreateSummaryWithoutAi(items).val

----------------------------------------------------------------------------
(* Claims about select_top_items_for_ran_engineers *)

\* the first top_n items of all_items
FirstTopN == SubSeq(all_items, 1, IF top_n < Len(all_items) THEN top_n ELSE Len(all_items))

\* the entries of the parsed index list that name an item of all_items: the
\* numbers 1 to len(all_items), and true, which counts as 1
ValidEntries(r) ==
    {k \in 1..Len(r.val) :
        \E j \in 1..Len(all_items) :
            \/ r.val[k] = VNum(<<Digit[j]>>)
            \/ j = 1 /\ r.val[k] = VLit(<<"t", "r", "u", "e">>)}

\* the failures of the selection step, read from what the environment
\* delivered
SelectionFailed ==
    \/ api_key \in {"unset", ""}
    \/ neterr
    \/ status >= 400
    \/ data = VErr
    \/ ~HasFirstPart(data)
    \/ LET r == Loads(CleanJson(ExtractJson(stext)))
       IN  \/ r = VErr
           \/ r.kind # "arr"
           \/ Cardinality(ValidEntries(r)) < top_n

\* C11: select_top_items_for_ran_engineers never raises, and after every
\* failure of the selection step (no key, transport or HTTP error also of
\* the retry, no candidates, content or parts, unparseable text, a parsed
\* value that is no list, fewer than top_n valid indices) it returns the
\* first top_n items of all_items
C11_SelectFallsBack ==
    spc \in {"returned", "raised"} =>
        /\ exc = "none" /\ spc = "returned"
        /\ SelectionFailed => selected_items = FirstTopN

\* C11 witness: the LLM named fewer valid indices than asked for, and the
\* first top_n items were returned although the LLM had named another one
C11_Witness ==
    /\ spc = "returned" /\ status = 200 /\ HasFirstPart(data)
    /\ Len(all_items) = 2 /\ top_n = 2
    /\ stext = Arr2(<<"0">>, <<"9">>) \/ stext = Arr2(Str(<<"1">>), <<"2">>)
    /\ selected_items = all_items

\* C20: select_top_items_for_ran_engineers returns exactly
\* min(top_n, len(all_items)) elements, each an element of all_items
C20_SelectionSize ==
    spc = "returned" =>
        /\ Len(selected_items) = (IF top_n < Len(all_items) THEN top_n ELSE Len(all_items))
        /\ \A k \in 1..Len(selected_items) :
              \E j \in 1..Len(all_items) : selected_items[k] = all_items[j]

----------------------------------------------------------------------------
(* Claims about the requests of the LLM calls *)

\* C13: an LLM call issues at most two requests; the second request is made
\* exactly when the first response has status 429 or 500; a second failing
\* response is not retried but leads to the fallback result of the call
\* (here: of the keyword extraction)
C13_RetryOnceOn429Or500 ==
    /\ [](attempts <= 2)
    /\ [][spc = "posted" => (attempts' = 2 <=> status \in {429, 500})]_vars
    /\ [][spc = "retried" /\ status >= 400 =>
             attempts' = 2 /\ spc' = "returned" /\ keyword' = DefaultKeyword]_vars

----------------------------------------------------------------------------
(* Claims about main and the fetch adapters *)

\* the names in calls
Called == { calls[k] : k \in 1..Len(calls) }

\* the fetch adapters main calls (search_google_scholar is commented out,
\* lines 1869-1871)
Adapters == {"search_ieee", "search_arxiv", "search_google_news"}

\* the list main got from an adapter
Fetched(adapter) ==
    CASE adapter = "search_ieee" -> journals
      [] adapter = "search_arxiv" -> papers_arxiv
      [] adapter = "search_google_news" -> news

\* main is past the fetch adapters
PastFetch == script = "fetch_6g_professional" /\ mpc \notin {"keyword", "ieee", "arxiv", "news"}

\* C12: a fetch adapter whose request or parsing failed (transport error,
\* HTTP error status, malformed entry, missing key) returns an empty list
\* and raises nothing, and the following adapters still run in main
C12_AdaptersReturnEmptyOnFailure ==
    /\ \A adapter \in failed : Fetched(adapter) = <<>>
    /\ PastFetch => Adapters \subseteq Called /\ (mpc = "check" => main_exc = "none")

\* the steps after the empty check of main
LaterSteps ==
    {"select_top_items_for_ran_engineers", "summarize_with_gemini", "save_to_file",
     "send_email", "send_visual_telegram"}

\* C14: if every fetch adapter returned an empty list, main returns without
\* raising and calls none of selection, summarization, file save, email
\* send and chat send
C14_NothingCollected ==
    (PastFetch /\ mpc # "check" /\ \A adapter \in Adapters : Fetched(adapter) = <<>>) =>
        /\ mpc = "returned" /\ main_exc = "none"
        /\ Called \cap LaterSteps = {}
        /\ sent = {}

\* C14 witness: main returned after three adapters that all came back
\* empty, one of them after a failure
C14_Witness ==
    /\ mpc = "returned" /\ Adapters \subseteq Called
    /\ journals = <<>> /\ papers_arxiv = <<>> /\ news = <<>>
    /\ "search_arxiv" \in failed

\* the step main is about to take needs a credential that is not set
MissingCredential ==
    \/ mpc \in {"keyword", "select", "summarize"} /\ LlmKey \notin env
    \/ mpc = "ieee" /\ IeeeKey \notin env
    \/ mpc = "fetch_news" /\ script = "fetch_and_email_gemini" /\ LlmKey \notin env
    \/ mpc = "fetch_news" /\ script = "fetch_and_email" /\ AnthropicKey \notin env
    \/ mpc = "email" /\ ~(EmailCredentials \subseteq env)
    \/ mpc = "chat" /\ ~(ChatCredentials \subseteq env)

\* C15: in every entry-point script, a step whose credential is missing
\* raises nothing and delivers nothing, and the run goes on to the next step
C15_MissingCredentialSkips ==
    [][MissingCredential => main_exc' = "none" /\ mpc' # "raised" /\ sent' = sent]_vars

\* the publishers
Publishers == {"save_to_file", "send_email", "send_visual_telegram"}

\* C18: in fetch_6g_professional.py a publisher is called only after the
\* URL reconciliation, which is called after the summarizer, which is
\* called after the selection, which is called after the fetch adapters
C18_ReconcileBeforePublish ==
    script = "fetch_6g_professional" =>
        \A p \in 1..Len(calls) :
            calls[p] \in Publishers =>
                \E f, s, m, r \in 1..p :
                    /\ f < s /\ s < m /\ m < r /\ r < p
                    /\ calls[f] \in Adapters
                    /\ calls[s] = "select_top_items_for_ran_engineers"
                    /\ calls[m] = "summarize_with_gemini"
                    /\ calls[r] = "_preserve_original_urls"

\* C19: once a publisher has been called, the run of fetch_6g_professional.py
\* does not end before all three publishers have been called
C19_PublishersIndependent ==
    (script = "fetch_6g_professional" /\ mpc \in {"report", "done", "raised"}
        /\ Called \cap Publishers # {}) =>
        Publishers \subseteq Called

----------------------------------------------------------------------------
(* Claims about send_visual_telegram *)

\* send_visual_telegram has assembled a message
Assembled == mpc = "report" /\ "send_visual_telegram" \in Called /\ message # <<>>

\* C16: the message send_visual_telegram assembles (header, section
\* headings, items, truncation line and footer) is shorter than 3500
\* characters
C16_MessageUnderBudget == Assembled => Len(message) < SafeLength

\* the number of items in the message: every item ends with the item rule
Included(msg) ==
    Cardinality({k \in 1..(Len(msg) - Len(ItemRule) + 1) :
                    SubSeq(msg, k, k + Len(ItemRule) - 1) = ItemRule})

\* C17: if the message leaves out a summary of the bundle, of whatever
\* type, it contains the truncation line
C17_TruncationIndicated ==
    (Assembled /\ Included(message) < Len(GetKey(summary_data, KSummaries).val)) =>
        Contains(message, MoreOpen)

----------------------------------------------------------------------------
(* Claims about the index list of select_top_items_for_ran_engineers *)

\* the value the sanitized LLM text parses to
ParsedIndices == Loads(CleanJson(ExtractJson(stext)))

\* the selection returned after the LLM text parsed to a JSON array
ArrayReturned ==
    /\ spc = "returned" /\ api_key = "key" /\ ~neterr /\ status < 400
    /\ data # VErr /\ HasFirstPart(data)
    /\ ParsedIndices # VErr /\ ParsedIndices.kind = "arr"

\* an entry of the array that is an integer in 1..n
IntegerInRange(entry, n) == entry.kind = "num" /\ 1 <= IntValue(entry) /\ IntValue(entry) <= n

\* the items the integer entries in range name, in the order of the array
ListedItems ==
    LET kept == SelectSeq(ParsedIndices.val, LAMBDA entry : IntegerInRange(entry, Len(all_items)))
    IN  [k \in 1..Len(kept) |-> all_items[IntValue(kept[k])]]

\* C21: when the LLM returns a JSON array, every entry that is not an
\* integer in 1..len(all_items) is ignored, the others are mapped to items
\* in the order listed, and the result is the first top_n of those if there
\* are top_n, else the first top_n of all_items
C21_IndicesMapped ==
    ArrayReturned =>
        selected_items = (IF Len(ListedItems) >= top_n THEN Take(ListedItems, top_n)
                          ELSE FirstTopN)

\* C22: the returned list holds no item of all_items (no position) twice
C22_NoItemTwice ==
    spc = "returned" =>
        \A k, l \in 1..Len(selected_items) :
            k # l => \E i, j \in 1..Len(all_items) :
                        /\ i # j
                        /\ selected_items[k] = all_items[i]
                        /\ selected_items[l] = all_items[j]

----------------------------------------------------------------------------
(* Claims about the bundle summarize_with_gemini returns *)

\* the value the sanitized LLM text parses to
ParsedResults == Loads(CleanJson(ExtractJson(stext)))

\* summarize_with_gemini has ended after the sanitized LLM text parsed
TextParsed ==
    /\ Returned /\ api_key = "key" /\ ~neterr /\ status < 400
    /\ data # VErr /\ HasFirstPart(data)
    /\ ParsedResults # VErr

\* the parsed value is an object that contains summaries
HasSummaries == ParsedResults.kind = "obj" /\ HasKey(ParsedResults, KSummaries)

\* the bundle made of a parsed array
Normalized == Dict2(KSummaries, ParsedResults, KGeneratedAt, VStr(Today))

\* C23 as stated: a parsed array is returned as the summaries of a bundle
\* dated today, and a parsed object that contains summaries is returned
\* unchanged
C23_ParsedReturned ==
    TextParsed =>
        /\ spc = "returned" /\ exc = "none"
        /\ ParsedResults.kind = "arr" => result = Normalized
        /\ HasSummaries => result = ParsedResults

\* C23 amended: a parsed array is returned as the summaries of a bundle
\* dated today; a parsed object that contains summaries is returned
\* unchanged if its summaries value has a length (list, string, object); if
\* that value has none (number, true, false, null) the bundle of
\* create_summary_without_ai is returned
C23_SizedReturned ==
    TextParsed =>
        /\ spc = "returned" /\ exc = "none"
        /\ ParsedResults.kind = "arr" => result = Normalized
        /\ HasSummaries =>
              result = (IF GetKey(ParsedResults, KSummaries).kind \in {"arr", "str", "obj"}
                        THEN ParsedResults
                        ELSE CreateSummaryWithoutAi(items).val)

\* C23 witness: the text parsed to an object whose summaries is a number,
\* and the bundle of create_summary_without_ai of a non-empty list came back
C23_Witness ==
    /\ TextParsed /\ HasSummaries /\ items # <<>>
    /\ GetKey(ParsedResults, KSummaries).kind = "num"
    /\ result = CreateSummaryWithoutAi(items).val
    /\ result # ParsedResults

\* the fields of a summary the publishers read by subscript
SummaryFields == <<KTitle, KSummary, KMessage, KUrl>>

\* a report bundle: a summaries list and a generatedAt, every summary with
\* title, summary, message and url
WellFormedBundle(bundle) ==
    /\ bundle.kind = "obj"
    /\ HasKey(bundle, KSummaries) /\ HasKey(bundle, KGeneratedAt)
    /\ GetKey(bundle, KSummaries).kind = "arr"
    /\ \A k \in 1..Len(GetKey(bundle, KSummaries).val) :
          LET summary == GetKey(bundle, KSummaries).val[k]
          IN  /\ summary.kind = "obj"
              /\ \A f \in 1..Len(SummaryFields) : HasKey(summary, SummaryFields[f])

\* C24: every bundle summarize_with_gemini returns is a well-formed report
\* bundle
C24_BundleWellFormed == spc = "returned" => WellFormedBundle(result)

----------------------------------------------------------------------------
(* Claims about the grouping of the publishers *)

\* the type of a summary: News if it carries none
CarriedType(summary) ==
    IF HasKey(summary, KType) THEN GetKey(summary, KType).str ELSE TNews

\* the summaries of the bundle
Summaries == GetKey(summary_data, KSummaries).val

\* send_visual_telegram has gone through the grouping
Grouped ==
    /\ mpc \in {"report", "raised"} /\ "send_visual_telegram" \in Called
    /\ ChatCredentials \subseteq env

\* C25: the grouping raises for no type a summary carries, each group holds
\* the summaries of its type (those without type are News) in the order of
\* the bundle, and every summary is in one of the three groups
C25_GroupingTotal ==
    Grouped =>
        /\ main_exc = "none"
        /\ \A type \in {TJournal, TPaper, TNews} :
              Group(Summaries, type) = SelectSeq(Summaries, LAMBDA x : CarriedType(x) = type)
        /\ Len(Group(Summaries, TJournal)) + Len(Group(Summaries, TPaper))
               + Len(Group(Summaries, TNews)) = Len(Summaries)

----------------------------------------------------------------------------
(* Specification of clean_json_string applied to any short text *)

MaxCleanLen == 5

\* the characters of the texts: the backslash, the character the function
\* uses as its marker, and an ordinary character
CleanChars == {BackSlash, Nul, "a"}

CleanTexts == UNION { [1..n -> CleanChars] : n \in 0..MaxCleanLen }

CleanInit ==
    /\ UrlIdle /\ SumIdle /\ SelIdle /\ MainIdle
    /\ doc = <<>> /\ body = <<>> /\ text = <<>>
    /\ json_text \in CleanTexts
    /\ clean_text = <<>>
    /\ parsed = VErr
    /\ jpc = "clean"

CleanNext == CleanJsonString

SpecClean == CleanInit /\ [][CleanNext]_vars

\* the text with every doubled backslash, paired from left to right, kept
\* and every other backslash left out
RECURSIVE KeepDoubled(_, _)
KeepDoubled(s, i) ==
    IF i > Len(s) THEN <<>>
    ELSE IF s[i] # BackSlash THEN <<s[i]>> \o KeepDoubled(s, i + 1)
    ELSE IF i < Len(s) /\ s[i + 1] = BackSlash
         THEN <<BackSlash, BackSlash>> \o KeepDoubled(s, i + 2)
    ELSE KeepDoubled(s, i + 1)

NotBackSlash(c) == c # BackSlash

\* C29: clean_json_string is idempotent; every backslash of its output
\* belongs to a doubled pair; the output is the input with the doubled
\* backslashes kept and the other backslashes deleted, the other characters
\* in their order
C29_CleanIdempotentPairs ==
    Cleaned =>
        /\ CleanJson(clean_text) = clean_text
        /\ 2 * DoubledFrom(clean_text, 1) = Len(clean_text) - Len(SelectSeq(clean_text, NotBackSlash))
        /\ clean_text = KeepDoubled(json_text, 1)
        /\ SelectSeq(clean_text, NotBackSlash) = SelectSeq(json_text, NotBackSlash)

----------------------------------------------------------------------------
(* Claims about what _preserve_original_urls changes *)

\* the urls of the source items
SourceUrls == { original_items[j].url : j \in 1..Len(original_items) }

AppliedAgain ==
    [k \in 1..Len(summaries) |->
        RestoreOne(BuildMap(original_items, Len(original_items)), summaries[k])]

C28_FallbackNeedsSharedText ==
    LET ik == ItemKeys
        sk == SummaryKeys
    IN  \A k \in Visited :
            (ExactItems(ik, sk[k]) = {} /\ summaries[k].url # returned[k].url) =>
                \E j \in DOMAIN ik :
                    /\ summaries[k].url = original_items[j].url
                    /\ ik[j] # <<>>
                    /\ Contains(ik[j], sk[k]) \/ Contains(sk[k], ik[j])

----------------------------------------------------------------------------
(* fetch_6g_news_with_gemini of fetch_and_email_gemini.py *)

KDate == <<"d", "a", "t", "e">>
KOutput == <<"o", "u", "t", "p", "u", "t">>

MaxNews == 6
TopLimit == 5
DescriptionLimit == 250

\* an item as search_google_news builds it, with a description of dl
\* characters
FoundNews(i, dl) ==
    [title |-> <<"T", i>>, link |-> <<"l", i>>, pub_date |-> <<"d", i>>,
     description |-> Rep("x", dl)]

\* the search results: up to MaxNews items, the descriptions short, at the
\* limit, or one character over it
NewsLists ==
    { [i \in 1..n |-> FoundNews(i, dl)] :
        n \in 0..MaxNews, dl \in {1, DescriptionLimit, DescriptionLimit + 1} }

\* the significance line of the i-th summary
Significance(i) == <<"n", "o", ".", Digit[i]>>

\* create_summary_from_news: the first TopLimit items, descriptions cut
CreateSummaryFromNews(news_items) ==
    LET first == Take(news_items, TopLimit)
        description(item) ==
            IF Len(item.description) > DescriptionLimit
            THEN SubSeq(item.description, 1, DescriptionLimit) \o Ellipsis
            ELSE item.description
        entry(i) == VObj(<<[key |-> KTitle, val |-> VStr(first[i].title)],
                           [key |-> KSummary, val |-> VStr(description(first[i]))],
                           [key |-> KSignificance, val |-> VStr(Significance(i))],
                           [key |-> KDate, val |-> VStr(first[i].pub_date)],
                           [key |-> KUrl, val |-> VStr(first[i].link)]>>)
    IN  Dict2(KTop5, VArr([i \in 1..Len(first) |-> entry(i)]), KGeneratedAt, VStr(Today))

\* get_empty_news: the fixed placeholder
GetEmptyNews ==
    Dict2(KTop5,
          VArr(<<VObj(<<[key |-> KTitle, val |-> VStr(<<"n", "o", "n", "e">>)],
                        [key |-> KSummary, val |-> VStr(<<"r", "e", "t", "r", "y">>)],
                        [key |-> KSignificance, val |-> VStr(<<"e", "r", "r", "o", "r">>)],
                        [key |-> KDate, val |-> VStr(Today)],
                        [key |-> KUrl, val |-> VStr(<<"n", "e", "w", "s">>)]>>)>>),
          KGeneratedAt, VStr(Today))

\* the JSON object the prompt asks for, with top5 written as v
TopAndDate(v) ==
    <<"{">> \o Str(KTop5) \o <<":", " ">> \o v \o <<",", " ">>
        \o Str(KGeneratedAt) \o <<":", " ">> \o Str(Today) \o <<"}">>

\* a JSON object with top5 only
TopOnly(v) == <<"{">> \o Str(KTop5) \o <<":", " ">> \o v \o <<"}">>

OneNewsText == <<"[", "{">> \o Str(KTitle) \o <<":", " ">> \o Str(<<"a">>) \o <<"}", "]">>

\* the texts of the LLM: the object asked for (bare and fenced), an object
\* without generatedAt, top5 as a string or a number, an object without
\* top5, an array, a number, a string, and a text that is not JSON
NewsTexts ==
    { TopAndDate(<<"[", "]">>),
      TopAndDate(OneNewsText),
      Fence \o <<"j", "s", "o", "n", "\n">> \o TopAndDate(OneNewsText) \o <<"\n">> \o Fence,
      TopOnly(<<"[", "]">>),
      TopOnly(Str(<<"a">>)),
      TopOnly(<<"1">>),
      <<"{">> \o Str(KGeneratedAt) \o <<":", " ">> \o Str(Today) \o <<"}">>,
      <<"[", "1", "]">>,
      <<"1">>,
      Str(<<"a">>),
      <<"o", "k">> }

\* the values found where the text is expected
TextValues == {VStr(t) : t \in NewsTexts} \cup {VStr(<<>>), VNum(<<"5">>), VNum(<<"0">>)}

\* response bodies: not JSON, a number, an array, no candidates, candidates
\* that are empty or a number, candidates without the known fields, content
\* without the known fields, parts that are empty, hold an object without
\* text or hold a string, and the text in each of the four known places
NewsResponses ==
    { VErr,
      VNum(<<"1">>),
      VArr(<<>>),
      VObj(<<>>),
      WithCandidates(<<>>),
      Dict1(KCandidates, VNum(<<"1">>)),
      WithCandidates(<<VObj(<<>>)>>),
      WithCandidates(<<VStr(KText)>>),
      WithCandidates(<<Dict1(KContent, VObj(<<>>))>>),
      WithCandidates(<<Dict1(KContent, VStr(KParts))>>),
      WithCandidates(<<WithParts(<<VObj(<<>>)>>)>>),
      WithCandidates(<<WithParts(<<VStr(<<"a">>)>>)>>),
      WithCandidates(<<Dict1(KContent, Dict1(KParts, VStr(<<"a">>)))>>),
      WithCandidates(<<Dict1(KContent, Dict1(KParts, VNum(<<"1">>)))>>) }
    \cup { WithCandidates(<<WithParts(<<Dict1(KText, v)>>)>>) : v \in TextValues }
    \cup { WithCandidates(<<Dict1(KContent, Dict2(KParts, VArr(<<>>), KText, v))>>) : v \in TextValues }
    \cup { WithCandidates(<<Dict1(KOutput, v)>>) : v \in TextValues }
    \cup { WithCandidates(<<Dict1(KText, v)>>) : v \in TextValues }

\* the outcome of lines 133-157: the value bound to text, a return of the
\* non-AI summary, or an exception
Found(v) == [out |-> "text", val |-> v]
Unknown == [out |-> "fallback", val |-> NoResult]
Raised(e) == [out |-> e, val |-> NoResult]

\* x[0] of a value with a length: the first element, the first character,
\* or KeyError for a dict
FirstOf(x) ==
    IF x.kind = "arr" THEN x.val[1]
    ELSE IF x.kind = "str" THEN VStr(<<x.str[1]>>)
    ELSE VErr

\* len(x) of a value with a length
PyLen(x) == IF x.kind = "str" THEN Len(x.str) ELSE Len(x.val)

\* lines 133-157.  A value that is no dict where a dict is expected ends in
\* the non-AI summary either way: its "in" test is false for all three keys
\* or raises TypeError, or the subscript by a key raises TypeError.
CandidateText(d) ==
    IF d.kind # "obj" \/ ~HasKey(d, KCandidates) THEN Unknown
    ELSE LET cands == GetKey(d, KCandidates)
         IN  IF Unsized(cands) THEN Raised("TypeError")
             ELSE IF PyLen(cands) = 0 THEN Unknown
             ELSE IF cands.kind = "obj" THEN Raised("KeyError")
             ELSE LET candidate == FirstOf(cands)
                  IN  IF candidate.kind # "obj" THEN Unknown
                      ELSE IF HasKey(candidate, KContent)
                      THEN LET content == GetKey(candidate, KContent)
                           IN  IF content.kind # "obj" THEN Unknown
                               ELSE IF HasKey(content, KParts) /\ Unsized(GetKey(content, KParts))
                               THEN Raised("TypeError")
                               ELSE IF HasKey(content, KParts) /\ PyLen(GetKey(content, KParts)) > 0
                               THEN LET parts == GetKey(content, KParts)
                                    IN  IF parts.kind = "obj" THEN Raised("KeyError")
                                        ELSE IF FirstOf(parts).kind # "obj"
                                        THEN Raised("AttributeError")
                                        ELSE Found(GetOr(FirstOf(parts), KText, VStr(<<>>)))
                               ELSE IF HasKey(content, KText) THEN Found(GetKey(content, KText))
                               ELSE Unknown
                      ELSE IF HasKey(candidate, KOutput) THEN Found(GetKey(candidate, KOutput))
                      ELSE IF HasKey(candidate, KText) THEN Found(GetKey(candidate, KText))
                      ELSE Unknown

\* "not x" of a value
Falsy(x) ==
    \/ x.kind = "str" /\ x.str = <<>>
    \/ x.kind = "num" /\ x.str = <<"0">>
    \/ x.kind = "lit" /\ x.str # <<"t", "r", "u", "e">>
    \/ x.kind \in {"arr", "obj"} /\ x.val = <<>>

\* line 164: the fences taken out, the text trimmed
NewsCleanText(t) ==
    Strip(Replace(Replace(t, Fence \o <<"j", "s", "o", "n">>, <<>>), Fence, <<>>))

\* lines 174 and 179-186: the exceptions the two try blocks catch
NewsCatches(e) ==
    e \in {"KeyError", "IndexError", "TypeError", "ConnectionError", "HTTPError", "JSONDecodeError"}

----------------------------------------------------------------------------
(* Specification of fetch_6g_news_with_gemini *)

NewsInit ==
    /\ UrlIdle /\ JsonIdle /\ SelIdle /\ MainIdle
    /\ items \in NewsLists
    /\ api_key \in {"unset", "", " ", "key"}
    /\ attempts = 0 /\ neterr = FALSE
    /\ status = 0 /\ data = NoResult /\ stext = <<>>
    /\ result = NoResult /\ exc = "none" /\ spc = "start"

\* return create_summary_from_news(news_items[:5])
NewsFallback(p) ==
    /\ spc = p
    /\ result' = CreateSummaryFromNews(Take(items, TopLimit))
    /\ spc' = "returned"
    /\ exc' = exc

\* an exception e raised inside the try blocks at position p
NewsExcept(p, e) ==
    IF NewsCatches(e) THEN NewsFallback(p)
    ELSE /\ spc = p
         /\ exc' = e /\ spc' = "raised" /\ result' = result

\* lines 57-59: nothing found, the placeholder
NewsCheckItems ==
    /\ spc = "start"
    /\ IF items = <<>>
       THEN result' = GetEmptyNews /\ spc' = "returned" /\ exc' = exc
       ELSE spc' = "key" /\ UNCHANGED <<result, exc>>
    /\ UNCHANGED <<items, api_key, attempts, neterr, status, data, stext>>
    /\ UNCHANGED <<urlVars, jsonVars, selVars, mainVars>>

\* lines 62-64: no API key or a blank one, no request
NewsCheckApiKey ==
    /\ spc = "key"
    /\ IF api_key \in {"unset", "", " "} THEN NewsFallback("key")
       ELSE spc' = "post" /\ UNCHANGED <<result, exc>>
    /\ UNCHANGED <<items, api_key, attempts, neterr, status, data, stext>>
    /\ UNCHANGED <<urlVars, jsonVars, selVars, mainVars>>

\* line 117: the request ends in a transport error
NewsPostFails ==
    /\ spc = "post"
    /\ attempts' = attempts + 1
    /\ neterr' = TRUE
    /\ NewsExcept("post", "ConnectionError")
    /\ UNCHANGED <<items, api_key, status, data, stext>>
    /\ UNCHANGED <<urlVars, jsonVars, selVars, mainVars>>

\* line 117: the request is answered with status code st
NewsPostResponds(st) ==
    /\ spc = "post"
    /\ attempts' = attempts + 1
    /\ status' = st
    /\ spc' = "posted"
    /\ UNCHANGED <<items, api_key, neterr, data, stext, result, exc>>
    /\ UNCHANGED <<urlVars, jsonVars, selVars, mainVars>>

\* lines 120-126: status 400 returns the non-AI summary (also when the error
\* body is not JSON: that exception is caught), other errors raise HTTPError
NewsCheckStatus ==
    /\ spc = "posted"
    /\ IF status = 400 THEN NewsFallback("posted")
       ELSE IF status > 400 THEN NewsExcept("posted", "HTTPError")
       ELSE spc' = "json" /\ UNCHANGED <<result, exc>>
    /\ UNCHANGED <<items, api_key, attempts, neterr, status, data, stext>>
    /\ UNCHANGED <<urlVars, jsonVars, selVars, mainVars>>

\* line 128: data = response.json(), of a body b
NewsReadJson(b) ==
    /\ spc = "json"
    /\ data' = b
    /\ IF b = VErr THEN NewsExcept("json", "JSONDecodeError")
       ELSE spc' = "candidates" /\ UNCHANGED <<result, exc>>
    /\ UNCHANGED <<items, api_key, attempts, neterr, status, stext>>
    /\ UNCHANGED <<urlVars, jsonVars, selVars, mainVars>>

\* lines 133-161 and the replace of line 164, which a text that is no str
\* does not have
NewsReadText ==
    /\ spc = "candidates"
    /\ LET found == CandidateText(data)
       IN  IF found.out = "fallback" THEN NewsFallback("candidates") /\ stext' = stext
           ELSE IF found.out # "text" THEN NewsExcept("candidates", found.out) /\ stext' = stext
           ELSE IF Falsy(found.val) THEN NewsFallback("candidates") /\ stext' = stext
           ELSE IF found.val.kind # "str"
           THEN NewsExcept("candidates", "AttributeError") /\ stext' = stext
           ELSE /\ stext' = found.val.str
                /\ spc' = "parse"
                /\ UNCHANGED <<result, exc>>
    /\ UNCHANGED <<items, api_key, attempts, neterr, status, data>>
    /\ UNCHANGED <<urlVars, jsonVars, selVars, mainVars>>

\* lines 164-168: parse the text and return what it holds
NewsParseText ==
    /\ spc = "parse"
    /\ LET results == Loads(NewsCleanText(stext))
       IN  IF results = VErr THEN NewsExcept("parse", "JSONDecodeError")
           ELSE IF results.kind # "obj" THEN NewsExcept("parse", "TypeError")
           ELSE IF ~HasKey(results, KTop5) THEN NewsExcept("parse", "KeyError")
           ELSE IF Unsized(GetKey(results, KTop5)) THEN NewsExcept("parse", "TypeError")
           ELSE result' = results /\ spc' = "returned" /\ exc' = exc
    /\ UNCHANGED <<items, api_key, attempts, neterr, status, data, stext>>
    /\ UNCHANGED <<urlVars, jsonVars, selVars, mainVars>>

NewsNext ==
    \/ NewsCheckItems
    \/ NewsCheckApiKey
    \/ NewsPostFails
    \/ \E st \in StatusCodes : NewsPostResponds(st)
    \/ NewsCheckStatus
    \/ \E b \in NewsResponses : NewsReadJson(b)
    \/ NewsReadText
    \/ NewsParseText

SpecNews == NewsInit /\ [][NewsNext]_vars

----------------------------------------------------------------------------
(* Claims about fetch_6g_news_with_gemini *)

\* the bundle is the non-AI summary of the first five news items
NonAiSummary(bundle) ==
    /\ HasKey(bundle, KTop5) /\ HasKey(bundle, KGeneratedAt)
    /\ GetKey(bundle, KGeneratedAt) = VStr(Today)
    /\ LET top == GetKey(bundle, KTop5)
       IN  /\ top.kind = "arr"
           /\ Len(top.val) = (IF Len(items) < 5 THEN Len(items) ELSE 5)
           /\ \A k \in 1..Len(top.val) :
                /\ GetKey(top.val[k], KTitle) = VStr(items[k].title)
                /\ GetKey(top.val[k], KUrl) = VStr(items[k].link)
                /\ GetKey(top.val[k], KDate) = VStr(items[k].pub_date)
                /\ GetKey(top.val[k], KSummary) =
                     VStr(IF Len(items[k].description) > 250
                          THEN SubSeq(items[k].description, 1, 250) \o <<".", ".", ".">>
                          ELSE items[k].description)

\* the request failed, or the answer holds no candidates, an empty text,
\* a text that is not JSON, or JSON without top5
LlmFailed ==
    \/ neterr
    \/ status = 400
    \/ /\ data \notin {NoResult, VErr}
       /\ \/ ~HasKey(data, KCandidates)
          \/ LET found == CandidateText(data)
             IN  /\ found.out = "text"
                 /\ \/ found.val = VStr(<<>>)
                    \/ /\ found.val.kind = "str"
                       /\ LET results == Loads(NewsCleanText(found.val.str))
                          IN  results = VErr \/ (results.kind = "obj" /\ ~HasKey(results, KTop5))

\* C30: fetch_6g_news_with_gemini never raises and returns a bundle with a
\* top5 list and generatedAt: the placeholder, without a request, when
\* nothing was found; the non-AI summary, without a request, when the API
\* key is missing or blank; the non-AI summary of at most five items with
\* descriptions cut to 250 characters and three dots when the LLM failed
C30_NewsFetchNeverRaises ==
    Returned =>
        /\ exc = "none" /\ spc = "returned"
        /\ HasKey(result, KTop5) /\ GetKey(result, KTop5).kind = "arr"
        /\ HasKey(result, KGeneratedAt)
        /\ items = <<>> => (result = GetEmptyNews /\ attempts = 0)
        /\ (items # <<>> /\ api_key \in {"unset", "", " "}) => (NonAiSummary(result) /\ attempts = 0)
        /\ (items # <<>> /\ LlmFailed) => NonAiSummary(result)

====
